---- MODULE Spec2Model ----
(***************************************************************************)
(* Model of the wine-quality predictor (backend/app/services/ml_service.py *)
(* and the prediction routes of backend/app/routes/prediction.py).         *)
(*                                                                         *)
(* Python objects are modelled by the attributes the code probes           *)
(* (hasattr / isinstance) and by the outcome of each call the code makes   *)
(* on them: a call either returns a value or raises.  An operation's       *)
(* outcome is a record with kind "return" or "raise".                      *)
(*                                                                         *)
(* Numbers that need fractions (raw predictions, class labels, quality     *)
(* estimates) are integers counting units of 1/Den.  Probabilities are     *)
(* integers counting units of 1/PScale.  A confidence is a fraction        *)
(* [num, den].                                                             *)
(***************************************************************************)
EXTENDS Integers, Sequences, FiniteSets, TLC

VARIABLES
    features,   \* the feature mapping handed to the operation
    predictor,  \* the MLPredictor instance: best_model, scaler, label_encoder,
                \* all_models, model_info
    pc,         \* "idle" before the operation runs, then "done" (for a route: its name);
                \* for the process: "running", or "exited" after a failed startup
    out,        \* the outcome of the operation
    calls,      \* the calls made on the collaborators (scaler, estimators, file
                \* loaders, accessors of the global predictor), in order
    models_dir, \* the artifact files of the models directory
    ml_predictor, \* the module's global predictor instance
    gemini,     \* the frame of GeminiService._generate_with_retry: prompt, max_retries, attempt
    world       \* what the loaded collaborators do whenever they are called: the
                \* scaler's transform, the estimator's predict and predict_proba,
                \* and whether pydantic coerces a number into a str field

vars == <<features, predictor, pc, out, calls, models_dir, ml_predictor, gemini, world>>

(***************************************************************************)
(* Bounds of the model.                                                    *)
(***************************************************************************)
Den == 2          \* numbers are counted in units of 1/Den
RawMax == 11      \* raw estimator outputs range over -2 .. RawMax
PScale == 4       \* probabilities are counted in units of 1/PScale
MaxClasses == 3   \* longest probability vector an estimator returns
MaxModels == 2    \* most entries of the model registry
MaxResults == 3   \* most per-model results a comparison is run over
MaxCalls == 4     \* most accessor calls and startups of one process
SO2Max == 5       \* sulfur dioxide amounts range over -1 .. SO2Max (and past the field limits)
MaxRetries == 6   \* largest max_retries _generate_with_retry is called with
MaxUses == 3      \* most method calls made on one loaded predictor

(***************************************************************************)
(* Outcomes.                                                               *)
(***************************************************************************)
Return(v) == [kind |-> "return", value |-> v, error |-> "", msg |-> ""]
Raise(e, m) == [kind |-> "raise", value |-> <<>>, error |-> e, msg |-> m]
Returned(o) == o.kind = "return"
Raised(o) == o.kind = "raise"

(***************************************************************************)
(* Feature mappings.  A mapping is [shape, order, val]: order is the       *)
(* dict's iteration order over its keys and val maps each key to the kind  *)
(* of Python value it holds.  shape "none" is a caller passing None        *)
(* instead of a dict.                                                      *)
(***************************************************************************)
wire_features ==
    << "fixed_acidity", "volatile_acidity", "citric_acid", "residual_sugar",
       "chlorides", "free_sulfur_dioxide", "total_sulfur_dioxide",
       "density", "ph", "sulphates", "alcohol" >>

SeqToSet(s) == { s[i] : i \in 1..Len(s) }

\* The kinds of value a key can hold.  "int", "float" and "bool" are
\* instances of (int, float); "nan", "inf" and "ninf" are floats.
ValueKinds == {"float", "int", "bool", "nan", "inf", "ninf", "str", "none"}

\* isinstance(value, (int, float)): bool is a subclass of int.
IsIntOrFloat(v) == v \in {"float", "int", "bool", "nan", "inf", "ninf"}
\* np.isnan(value), np.isinf(value)
IsNan(v) == v = "nan"
IsInf(v) == v \in {"inf", "ninf"}

NoneFeatures == [shape |-> "none", order |-> <<>>, val |-> <<>>]
Mapping(order, val) == [shape |-> "dict", order |-> order, val |-> val]
Keys(f) == SeqToSet(f.order)

RECURSIVE SelectSeqIn(_, _)
\* the elements of sequence s that are in set S, in order
SelectSeqIn(s, S) ==
    IF s = <<>> THEN <<>>
    ELSE IF Head(s) \in S THEN <<Head(s)>> \o SelectSeqIn(Tail(s), S)
         ELSE SelectSeqIn(Tail(s), S)

(***************************************************************************)
(* MLPredictor.validate_features                                           *)
(***************************************************************************)
RECURSIVE CheckValues(_, _)
\* the loop over features.items(): the first offending value decides
CheckValues(order, val) ==
    IF order = <<>> THEN Return(<<TRUE, "None">>)
    ELSE LET value == val[Head(order)] IN
         IF ~IsIntOrFloat(value)
         THEN Return(<<FALSE, "must be numeric">>)
         ELSE IF IsNan(value) \/ IsInf(value)
              THEN Return(<<FALSE, "has invalid value">>)
              ELSE CheckValues(Tail(order), val)

\* mutant: the check for extra features is dropped
ValidateBodyNoExtra(f) ==
    IF f.shape = "none"
    THEN Raise("TypeError", "argument of type 'NoneType' is not iterable")
    ELSE IF SeqToSet(wire_features) \ Keys(f) # {}
         THEN Return(<<FALSE, "Missing features">>)
         ELSE CheckValues(f.order, f.val)

\* the body of the try block
ValidateBody(f) ==
    IF f.shape = "none"
    THEN Raise("TypeError", "argument of type 'NoneType' is not iterable")
    ELSE LET missing_features == SelectSeqIn(wire_features, SeqToSet(wire_features) \ Keys(f))
             extra_features == SelectSeqIn(f.order, Keys(f) \ SeqToSet(wire_features))
         IN  IF missing_features # <<>>
             THEN Return(<<FALSE, "Missing features">>)
             ELSE IF extra_features # <<>>
                  THEN Return(<<FALSE, "Unexpected features">>)
                  ELSE CheckValues(f.order, f.val)

\* mutant: the except clause is dropped, the error propagates
validate_features_reraise(f) == ValidateBody(f)

\* try: ... except Exception as e: return False, f"Validation error: {e}"
validate_features(f) ==
    LET r == ValidateBody(f) IN
    IF Raised(r) THEN Return(<<FALSE, "Validation error">>) ELSE r

(***************************************************************************)
(* The feature mappings the model draws from.                              *)
(***************************************************************************)
\* keys that may be absent, keys that may be added, keys whose value varies
DroppableKeys == {"fixed_acidity", "ph"}
ExtraKeys == {"extra_feature"}
VaryKeys == {"fixed_acidity", "ph", "alcohol", "extra_feature"}

FeatureOrders ==
    { SelectSeqIn(wire_features, SeqToSet(wire_features) \ d) \o SelectSeqIn(<<"extra_feature">>, e)
        : d \in SUBSET DroppableKeys, e \in SUBSET ExtraKeys }

ValuesOver(order) ==
    { [k \in SeqToSet(order) |-> IF k \in VaryKeys THEN v[k] ELSE "float"]
        : v \in [VaryKeys -> ValueKinds] }

FeatureInputs ==
    {NoneFeatures} \cup
    UNION { { Mapping(o, val) : val \in ValuesOver(o) } : o \in FeatureOrders }

(***************************************************************************)
(* Python values the estimators and the label decoder exchange: a number   *)
(* (n units of 1/Den), a string, or a non-finite float.                    *)
(***************************************************************************)
Num(n) == [t |-> "num", s |-> "", n |-> n]
Str(s) == [t |-> "str", s |-> s, n |-> 0]
NaN == [t |-> "nan", s |-> "", n |-> 0]
Inf == [t |-> "inf", s |-> "", n |-> 0]

Abs(x) == IF x < 0 THEN -x ELSE x
Min2(a, b) == IF a <= b THEN a ELSE b
Max2(a, b) == IF a >= b THEN a ELSE b

\* strings float() parses, with the value parsed
NumericStrings == {"7"}
ParseFloat(s) == IF s = "7" THEN 7 * Den ELSE 0

\* float(x)
PyFloat(x) ==
    IF x.t = "str"
    THEN IF x.s \in NumericStrings THEN Return(Num(ParseFloat(x.s)))
         ELSE Raise("ValueError", "could not convert string to float")
    ELSE Return(x)

\* round(x) of a float: half to even; NaN and infinity raise
PyRound(x) ==
    IF x.t = "nan" THEN Raise("ValueError", "cannot convert float NaN to integer")
    ELSE IF x.t = "inf" THEN Raise("OverflowError", "cannot convert float infinity to integer")
    ELSE LET q == x.n \div Den
             r == x.n % Den
         IN  Return(IF 2 * r < Den THEN q
                    ELSE IF 2 * r > Den THEN q + 1
                    ELSE IF q % 2 = 0 THEN q ELSE q + 1)

\* int(v): truncation toward zero; a string that is no integer literal raises
PyInt(v) ==
    IF v.t = "nan" THEN Raise("ValueError", "cannot convert float NaN to integer")
    ELSE IF v.t = "inf" THEN Raise("OverflowError", "cannot convert float infinity to integer")
    ELSE IF v.t = "str"
         THEN IF v.s \in NumericStrings THEN Return(ParseFloat(v.s) \div Den)
              ELSE Raise("ValueError", "invalid literal for int()")
         ELSE Return(IF v.n >= 0 THEN v.n \div Den ELSE -((-v.n) \div Den))

(***************************************************************************)
(* MLPredictor._convert_feature_names and the ordered row                  *)
(***************************************************************************)
expected_features ==
    << "fixed acidity", "volatile acidity", "citric acid", "residual sugar",
       "chlorides", "free sulfur dioxide", "total sulfur dioxide",
       "density", "pH", "sulphates", "alcohol" >>

\* feature_name_mapping: the wire names renamed; the other keys are not in it
feature_name_mapping ==
    [k \in SeqToSet(wire_features) |->
        expected_features[CHOOSE i \in 1..Len(wire_features) : wire_features[i] = k]]

\* mutant: no key is renamed
RenameNone(k) == k

\* feature_name_mapping.get(k, k)
Rename(k) == IF k \in DOMAIN feature_name_mapping THEN feature_name_mapping[k] ELSE k

RECURSIVE ConvertItems(_, _, _)
\* the dict comprehension, item by item: a later item overwrites an earlier
\* one that was renamed to the same key
ConvertItems(order, val, acc) ==
    IF order = <<>> THEN acc
    ELSE ConvertItems(Tail(order), val, (Rename(Head(order)) :> val[Head(order)]) @@ acc)

\* {feature_name_mapping.get(k, k): v for k, v in features.items()}
convert_feature_names(f) == ConvertItems(f.order, f.val, <<>>)

\* [model_features.get(feat, 0.0) for feat in expected_features]
feature_values(model_features) ==
    [i \in 1..Len(expected_features) |->
        IF expected_features[i] \in DOMAIN model_features
        THEN model_features[expected_features[i]] ELSE "0.0"]

(***************************************************************************)
(* The artifacts.                                                          *)
(*   estimator: the attributes predict() probes.  steps / named_steps say  *)
(*     whether the attribute exists, names are the keys of named_steps,    *)
(*     final_proba says whether named_steps['classifier'] (a pipeline) or  *)
(*     the object itself (a bare estimator) has predict_proba.             *)
(*   scaler: "None", "ndarray" (saved as a raw array) or "transformer".    *)
(*   label decoder: kind "None", "simple" (_SimpleLabelEncoder wrapped     *)
(*     from a raw array), "sklearn" (a fitted LabelEncoder) or "list" (a   *)
(*     plain list of class names).                                         *)
(***************************************************************************)
NoModel == [kind |-> "None", steps |-> FALSE, named_steps |-> FALSE, names |-> {},
            final_proba |-> FALSE]
Estimator(steps, named, names, proba) ==
    [kind |-> "estimator", steps |-> steps, named_steps |-> named, names |-> names,
     final_proba |-> proba]

Regressor == Estimator(FALSE, FALSE, {}, FALSE)
Classifier == Estimator(FALSE, FALSE, {}, TRUE)
PipeScalerClf == Estimator(TRUE, TRUE, {"scaler", "classifier"}, TRUE)
PipePrepReg == Estimator(TRUE, TRUE, {"preprocessor", "classifier"}, FALSE)
PipeClfOnly == Estimator(TRUE, TRUE, {"classifier"}, TRUE)
PipeScalerModel == Estimator(TRUE, TRUE, {"std_scaler", "model"}, TRUE)
PipeModelOnly == Estimator(TRUE, TRUE, {"model"}, FALSE)

Estimators == {Regressor, Classifier, PipeScalerClf, PipePrepReg, PipeClfOnly,
               PipeScalerModel, PipeModelOnly}

\* 'preprocessor' in step or 'scaler' in step
NamesPreprocessing(step) == step \in {"preprocessor", "scaler", "std_scaler"}

NoEncoder == [kind |-> "None", classes |-> <<>>]
Encoder(kind, classes) == [kind |-> kind, classes |-> classes]

ClassLists == { <<Str("Bad"), Str("Good")>>,
                <<Str("Average"), Str("Excellent"), Str("Poor")>>,
                <<Num(5 * Den), Num(6 * Den), Num(7 * Den)>> }
Encoders == {NoEncoder} \cup
            { Encoder(k, c) : k \in {"simple", "sklearn", "list"}, c \in ClassLists }

Scalers == {"None", "ndarray", "transformer"}

\* hasattr(label_encoder, "inverse_transform"), hasattr(label_encoder, "classes_")
HasInverseTransform(le) == le.kind \in {"simple", "sklearn"}
HasClasses(le) == le.kind \in {"simple", "sklearn"}

(***************************************************************************)
(* What the collaborators do when called: env.transform is "ok" or         *)
(* "raise"; env.predict and env.proba are outcomes.                        *)
(***************************************************************************)
RawNums == (-2 * Den) .. (RawMax * Den)

PredictValues == { Num(n) : n \in RawNums } \cup {NaN, Inf}
                 \cup { Str(s) : s \in {"Good", "Bad", "7"} }

RECURSIVE SumSeq(_)
SumSeq(s) == IF s = <<>> THEN 0 ELSE Head(s) + SumSeq(Tail(s))

RECURSIVE MaxSeq(_)
MaxSeq(s) == IF Len(s) = 1 THEN s[1] ELSE Max2(Head(s), MaxSeq(Tail(s)))

\* probability vectors: each entry in [0, 1], the entries sum to 1
ProbVectors ==
    UNION { { p \in [1..n -> 0..PScale] : SumSeq(p) = PScale } : n \in 2..MaxClasses }

EstimatorError == Raise("RuntimeError", "estimator call failed")

PredictOutcomes == {EstimatorError} \cup { Return(v) : v \in PredictValues }
ProbaOutcomes == {EstimatorError} \cup { Return(p) : p \in ProbVectors }

\* a call made on a collaborator: the input it was given and whether it returned
Call(obj, method, scaled, row, ok) ==
    [obj |-> obj, method |-> method, scaled |-> scaled, row |-> row, ok |-> ok]

(***************************************************************************)
(* MLPredictor.predict, stage by stage.  A stage yields [o, calls]: its    *)
(* outcome and the calls it made.                                          *)
(***************************************************************************)
Stage(o, c) == [o |-> o, calls |-> c]

\* Steps 3-4: pipeline detection and external preprocessing.  Returns the
\* processed features as [scaled, row].
is_pipeline(model) == model.steps
has_preprocessor(model) ==
    model.named_steps /\ \E step \in model.names : NamesPreprocessing(step)

\* mutant: an ndarray scaler is used like a transformer (no isinstance guard)
PreprocessNoArrayGuard(self, row, env) ==
    IF is_pipeline(self.best_model) /\ has_preprocessor(self.best_model)
    THEN Stage(Return([scaled |-> FALSE, row |-> row]), <<>>)
    ELSE IF self.scaler = "None"
         THEN Stage(Raise("ValueError", "Scaler not loaded and model has no internal preprocessing"), <<>>)
         ELSE IF self.scaler = "ndarray"
              THEN Stage(Raise("AttributeError", "'numpy.ndarray' object has no attribute 'transform'"), <<>>)
              ELSE IF env.transform = "raise"
                   THEN Stage(Raise("RuntimeError", "transform failed"),
                              <<Call("scaler", "transform", FALSE, row, FALSE)>>)
                   ELSE Stage(Return([scaled |-> TRUE, row |-> row]),
                              <<Call("scaler", "transform", FALSE, row, TRUE)>>)

\* mutant: a missing scaler is skipped like an ndarray scaler
PreprocessSkipMissing(self, row, env) ==
    IF is_pipeline(self.best_model) /\ has_preprocessor(self.best_model)
    THEN Stage(Return([scaled |-> FALSE, row |-> row]), <<>>)
    ELSE IF self.scaler \in {"None", "ndarray"}
         THEN Stage(Return([scaled |-> FALSE, row |-> row]), <<>>)
         ELSE IF env.transform = "raise"
              THEN Stage(Raise("RuntimeError", "transform failed"),
                         <<Call("scaler", "transform", FALSE, row, FALSE)>>)
              ELSE Stage(Return([scaled |-> TRUE, row |-> row]),
                         <<Call("scaler", "transform", FALSE, row, TRUE)>>)

Preprocess(self, row, env) ==
    IF is_pipeline(self.best_model) /\ has_preprocessor(self.best_model)
    THEN Stage(Return([scaled |-> FALSE, row |-> row]), <<>>)
    ELSE IF self.scaler = "None"
         THEN Stage(Raise("ValueError", "Scaler not loaded and model has no internal preprocessing"), <<>>)
         ELSE IF self.scaler = "ndarray"
              THEN Stage(Return([scaled |-> FALSE, row |-> row]), <<>>)
              ELSE IF env.transform = "raise"
                   THEN Stage(Raise("RuntimeError", "transform failed"),
                              <<Call("scaler", "transform", FALSE, row, FALSE)>>)
                   ELSE Stage(Return([scaled |-> TRUE, row |-> row]),
                              <<Call("scaler", "transform", FALSE, row, TRUE)>>)

\* final_estimator = best_model.named_steps['classifier'] if is_pipeline else best_model
FinalEstimator(model) ==
    IF is_pipeline(model)
    THEN IF ~model.named_steps
         THEN Raise("AttributeError", "object has no attribute 'named_steps'")
         ELSE IF "classifier" \notin model.names
              THEN Raise("KeyError", "'classifier'")
              ELSE Return(model.final_proba)
    ELSE Return(model.final_proba)

\* hasattr(final_estimator, "predict") and not hasattr(final_estimator, "predict_proba")
is_regressor(final_proba) == ~final_proba

\* a call on an estimator also keeps what the call did (its outcome o)
EstimatorCall(name, method, arg, o) ==
    [obj |-> name, method |-> method, scaled |-> arg.scaled, row |-> arg.row,
     ok |-> Returned(o), result |-> o]

\* best_model.predict(processed)[0] and best_model.predict_proba(processed)[0]
CallPredict(name, arg, env) ==
    Stage(env.predict, <<EstimatorCall(name, "predict", arg, env.predict)>>)
CallProba(name, model, arg, env) ==
    IF ~model.final_proba
    THEN Stage(Raise("AttributeError", "object has no attribute 'predict_proba'"), <<>>)
    ELSE Stage(env.proba, <<EstimatorCall(name, "predict_proba", arg, env.proba)>>)

Frac(num, den) == [num |-> num, den |-> den]

\* max(3, min(9, round(prediction)))
ClampQuality(r) == Max2(3, Min2(9, r))

\* mutant: the confidence is not bounded
RegressionConfidenceUnbounded(raw) ==
    LET distance_from_bounds == Min2(Abs(raw.n - 3 * Den), Abs(raw.n - 9 * Den))
    IN  Frac(100 * (6 * Den - distance_from_bounds), 600 * Den)

\* confidence = max(0.5, min(0.99, 1.0 - distance_from_bounds / range_size)),
\* as a fraction over 600 * Den
RegressionConfidence(raw) ==
    LET distance_from_bounds == Min2(Abs(raw.n - 3 * Den), Abs(raw.n - 9 * Den))
        confidence == 100 * (6 * Den - distance_from_bounds)
    IN  Frac(Max2(300 * Den, Min2(594 * Den, confidence)), 600 * Den)

\* The regression path (lines 281-298): the numbers of the result, or the
\* error raised.  The confidence is computed from the raw output itself.
RegressionPath(raw) ==
    LET f == PyFloat(raw) IN
    IF Raised(f) THEN f
    ELSE LET r == PyRound(f.value) IN
         IF Raised(r) THEN r
         ELSE IF raw.t = "str"
              THEN Raise("TypeError", "unsupported operand type(s) for -: 'str' and 'int'")
              ELSE LET prediction == ClampQuality(r.value) IN
                   Return([prediction |-> Num(prediction * Den),
                           confidence |-> RegressionConfidence(raw),
                           probability_good |->
                               IF prediction >= 6 THEN Frac(1, 1) ELSE Frac(0, 1)])

(***************************************************************************)
(* The classification path.                                                *)
(***************************************************************************)
\* classes[idx] of a Python list or numpy array of n entries: a negative
\* index counts from the end, an index outside -n .. n-1 raises IndexError
PyIndex(classes, idx) ==
    LET n == Len(classes) IN
    IF idx >= 0 /\ idx < n THEN Return(classes[idx + 1])
    ELSE IF idx < 0 /\ idx >= -n THEN Return(classes[n + idx + 1])
         ELSE Raise("IndexError", "index out of range")

\* _SimpleLabelEncoder.inverse_transform([v])[0]
SimpleInverseTransform(classes, v) ==
    LET idx == PyInt(v)
        byIndex == IF Returned(idx) THEN PyIndex(classes, idx.value) ELSE idx
        matches == { i \in 1..Len(classes) : classes[i] = v }
    IN  IF Returned(byIndex) THEN byIndex.value
        ELSE IF matches # {}
             THEN classes[CHOOSE i \in matches : \A j \in matches : i <= j]
             ELSE v

\* LabelEncoder.inverse_transform([v])[0]: a value that is no index of
\* classes_ raises ValueError
SklearnInverseTransform(classes, v) ==
    IF v.t = "num" /\ v.n % Den = 0 /\ v.n \div Den \in 0..(Len(classes) - 1)
    THEN Return(classes[(v.n \div Den) + 1])
    ELSE Raise("ValueError", "y contains previously unseen labels")

\* lines 317-333: decoding never raises, it falls back to the encoded value
DecodePrediction(le, prediction_encoded) ==
    IF le.kind # "None" /\ HasInverseTransform(le)
    THEN IF le.kind = "simple"
         THEN SimpleInverseTransform(le.classes, prediction_encoded)
         ELSE LET r == SklearnInverseTransform(le.classes, prediction_encoded) IN
              IF Returned(r) THEN r.value ELSE prediction_encoded
    ELSE IF le.kind = "list"
         THEN LET idx == PyInt(prediction_encoded)
                  r == IF Returned(idx) THEN PyIndex(le.classes, idx.value) ELSE idx
              IN  IF Returned(r) THEN r.value ELSE prediction_encoded
         ELSE prediction_encoded

\* mutant: every label maps to the default
prediction_map_default(s) == 4 * Den

\* prediction_map.get(decoded_prediction, 4.0)
prediction_map(s) ==
    IF s = "Bad" THEN 4 * Den
    ELSE IF s = "Average" THEN 5 * Den
    ELSE IF s = "Good" THEN 7 * Den
    ELSE IF s = "Excellent" THEN 8 * Den
    ELSE 4 * Den

\* lines 336-344: the decoded prediction as a float
NumericPrediction(decoded_prediction) ==
    LET f == PyFloat(decoded_prediction) IN
    IF Returned(f) THEN f.value
    ELSE Num(prediction_map(decoded_prediction.s))

\* (isinstance(label, (int, float)) and float(label) >= 6) or
\* (isinstance(label, str) and label in ['Good', 'Excellent'])
IsGoodLabel(label) ==
    \/ label.t = "num" /\ label.n >= 6 * Den
    \/ label.t = "str" /\ label.s \in {"Good", "Excellent"}

\* lines 350-360: the 0-based indices of the good classes
good_indices(le, probabilities) ==
    IF le.kind # "None" /\ HasClasses(le)
    THEN { i \in 0..(Len(le.classes) - 1) : IsGoodLabel(le.classes[i + 1]) }
    ELSE { i \in 0..(Len(probabilities) - 1) : i >= 6 }

RECURSIVE SumOver(_, _)
SumOver(p, idx) ==
    IF idx = {} THEN 0
    ELSE LET i == CHOOSE i \in idx : TRUE IN p[i + 1] + SumOver(p, idx \ {i})

\* sum(probabilities[i] for i in good_indices): an index past the end of the
\* vector raises IndexError, which the except (ValueError, TypeError) misses
ProbabilityGood(le, probabilities) ==
    LET idx == good_indices(le, probabilities) IN
    IF \E i \in idx : i >= Len(probabilities)
    THEN Raise("IndexError", "index out of bounds")
    ELSE Return(Frac(SumOver(probabilities, idx), PScale))

\* lines 302-360 given the estimator's outputs
ClassificationPath(le, probabilities, prediction_encoded) ==
    LET decoded_prediction == DecodePrediction(le, prediction_encoded)
        pg == ProbabilityGood(le, probabilities)
    IN  IF Raised(pg) THEN pg
        ELSE Return([prediction |-> NumericPrediction(decoded_prediction),
                     confidence |-> Frac(MaxSeq(probabilities), PScale),
                     probability_good |-> pg.value])

(***************************************************************************)
(* Quality banding (lines 362-370).  x >= c for a number of n units of     *)
(* 1/Den; NaN compares false with everything, infinity is above all.       *)
(***************************************************************************)
AtLeast(x, twice_c) ==
    IF x.t = "inf" THEN TRUE
    ELSE IF x.t = "nan" THEN FALSE
    ELSE 2 * x.n >= twice_c * Den

\* mutant: the thresholds are exclusive
QualityLabelExclusive(prediction) ==
    IF prediction.t = "num" /\ 2 * prediction.n > 16 * Den THEN "Excellent"
    ELSE IF prediction.t = "num" /\ 2 * prediction.n > 13 * Den THEN "Above Average"
    ELSE IF prediction.t = "num" /\ 2 * prediction.n > 10 * Den THEN "Average"
    ELSE "Below Average"

QualityLabel(prediction) ==
    IF AtLeast(prediction, 16) THEN "Excellent"
    ELSE IF AtLeast(prediction, 13) THEN "Above Average"
    ELSE IF AtLeast(prediction, 10) THEN "Average"
    ELSE "Below Average"

Result(numbers) ==
    [prediction |-> numbers.prediction,
     confidence |-> numbers.confidence,
     probability_good |-> numbers.probability_good,
     quality_label |-> QualityLabel(numbers.prediction),
     model_used |-> "Best Model"]

(***************************************************************************)
(* MLPredictor.predict (lines 196-385).  The except clause and @log_errors *)
(* log the error and re-raise it.                                          *)
(***************************************************************************)
\* lines 278-360: the estimator is called and its output normalised
Infer(self, arg, final_proba, env) ==
    IF is_regressor(final_proba)
    THEN LET c == CallPredict("Best Model", arg, env) IN
         IF Raised(c.o) THEN c
         ELSE Stage(RegressionPath(c.o.value), c.calls)
    ELSE LET pp == CallProba("Best Model", self.best_model, arg, env) IN
         IF Raised(pp.o) THEN pp
         ELSE LET c == CallPredict("Best Model", arg, env) IN
              IF Raised(c.o) THEN Stage(c.o, pp.calls \o c.calls)
              ELSE Stage(ClassificationPath(self.label_encoder, pp.o.value, c.o.value),
                         pp.calls \o c.calls)

\* mutant: the estimator is checked before the features are preprocessed
\* and a missing one is tolerated until it is called
PredictAfterPreprocessNoCheck(self, pre, env) ==
    IF self.best_model.kind = "None"
    THEN Stage(Raise("AttributeError", "'NoneType' object has no attribute 'predict'"),
               pre.calls)
    ELSE LET fe == FinalEstimator(self.best_model) IN
         IF Raised(fe) THEN Stage(fe, pre.calls)
         ELSE LET body == Infer(self, pre.o.value, fe.value, env) IN
              IF Raised(body.o) THEN Stage(body.o, pre.calls \o body.calls)
              ELSE Stage(Return(Result(body.o.value)), pre.calls \o body.calls)

\* lines 257-381, after preprocessing succeeded
PredictAfterPreprocess(self, pre, env) ==
    IF self.best_model.kind = "None"
    THEN Stage(Raise("ValueError", "Best model not loaded"), pre.calls)
    ELSE LET fe == FinalEstimator(self.best_model) IN
         IF Raised(fe) THEN Stage(fe, pre.calls)
         ELSE LET body == Infer(self, pre.o.value, fe.value, env) IN
              IF Raised(body.o) THEN Stage(body.o, pre.calls \o body.calls)
              ELSE Stage(Return(Result(body.o.value)), pre.calls \o body.calls)

predict(self, f, env) ==
    IF f.shape = "none"
    THEN Stage(Raise("AttributeError", "'NoneType' object has no attribute 'items'"), <<>>)
    ELSE LET row == feature_values(convert_feature_names(f))
             pre == Preprocess(self, row, env)
         IN  IF Raised(pre.o) THEN pre
             ELSE PredictAfterPreprocess(self, pre, env)

(***************************************************************************)
(* MLPredictor.get_all_predictions (lines 387-473).  The registry          *)
(* all_models is a sequence of [name, model] in insertion order.  env has  *)
(* transform, models (what predict and predict_proba of each registered    *)
(* model do) and coerce (whether the installed pydantic turns a number     *)
(* into a string for a str field or rejects it).                           *)
(***************************************************************************)
ModelPrediction(model_name, prediction, confidence, probability_good) ==
    [model_name |-> model_name, prediction |-> prediction,
     confidence |-> confidence, probability_good |-> probability_good]

\* the fallback prediction of a model whose inference failed
Sentinel(model_name) ==
    ModelPrediction(model_name, Str("Unknown"), Frac(0, 1), Frac(0, 1))

\* lines 413-423: the features are scaled once, before the loop
BatchPreprocess(self, row, env) ==
    IF self.scaler = "None"
    THEN Stage(Raise("ValueError", "Scaler not loaded"), <<>>)
    ELSE IF self.scaler = "ndarray"
         THEN Stage(Return([scaled |-> FALSE, row |-> row]), <<>>)
         ELSE IF env.transform = "raise"
              THEN Stage(Raise("RuntimeError", "transform failed"),
                         <<Call("scaler", "transform", FALSE, row, FALSE)>>)
              ELSE Stage(Return([scaled |-> TRUE, row |-> row]),
                         <<Call("scaler", "transform", FALSE, row, TRUE)>>)

\* lines 432-446: decoding; an error of the decoder yields "Unknown"
BatchDecode(le, prediction_encoded) ==
    IF le.kind # "None" /\ HasInverseTransform(le)
    THEN IF le.kind = "simple"
         THEN SimpleInverseTransform(le.classes, prediction_encoded)
         ELSE LET r == SklearnInverseTransform(le.classes, prediction_encoded) IN
              IF Returned(r) THEN r.value ELSE Str("Unknown")
    ELSE IF le.kind # "None" /\ le.classes # <<>>
         THEN LET idx == PyInt(prediction_encoded)
                  r == IF Returned(idx) THEN PyIndex(le.classes, idx.value) ELSE idx
              IN  IF Returned(r) THEN r.value ELSE prediction_encoded
         ELSE prediction_encoded

\* ModelPrediction(...): prediction is a str field
ValidatePrediction(prediction, coerce) ==
    IF prediction.t = "str" THEN Return(prediction)
    ELSE IF coerce /\ prediction.t = "num"
         THEN Return([t |-> "numstr", s |-> "", n |-> prediction.n])
         ELSE Raise("ValidationError", "str type expected")

\* lines 427-456: one model's prediction, or the error the loop body raised
ModelInference(self, entry, arg, menv, coerce) ==
    IF entry.model.kind = "None"
    THEN Stage(Raise("AttributeError", "'NoneType' object has no attribute 'predict'"), <<>>)
    ELSE LET c == CallPredict(entry.name, arg, menv) IN
         IF Raised(c.o) THEN c
         ELSE LET pp == CallProba(entry.name, entry.model, arg, menv) IN
              IF Raised(pp.o) THEN Stage(pp.o, c.calls \o pp.calls)
              ELSE LET probabilities == pp.o.value
                       prediction == ValidatePrediction(
                           BatchDecode(self.label_encoder, c.o.value), coerce)
                   IN  Stage(IF Raised(prediction) THEN prediction
                             ELSE Return(ModelPrediction(
                                    entry.name, prediction.value,
                                    Frac(MaxSeq(probabilities), PScale),
                                    IF Len(probabilities) > 1
                                    THEN Frac(probabilities[2], PScale) ELSE Frac(0, 1))),
                             c.calls \o pp.calls)

\* mutant: a model whose inference failed is left out of the list
ModelResultSkipFailed(self, entry, arg, menv, coerce) ==
    LET r == ModelInference(self, entry, arg, menv, coerce) IN
    IF Raised(r.o) THEN Stage(Return(<<>>), r.calls)
    ELSE Stage(Return(<<r.o.value>>), r.calls)

\* the loop body with its except clause (lines 426-466): what is appended
ModelResult(self, entry, arg, menv, coerce) ==
    LET r == ModelInference(self, entry, arg, menv, coerce) IN
    IF Raised(r.o) THEN Stage(Return(<<Sentinel(entry.name)>>), r.calls)
    ELSE Stage(Return(<<r.o.value>>), r.calls)

RECURSIVE BatchLoop(_, _, _, _, _, _)
\* for model_name, model in self.all_models.items(), from entry i on
BatchLoop(self, i, arg, env, predictions, made) ==
    IF i > Len(self.all_models) THEN Stage(Return(predictions), made)
    ELSE LET r == ModelResult(self, self.all_models[i], arg, env.models[i], env.coerce) IN
         IF Raised(r.o) THEN Stage(r.o, made \o r.calls)
         ELSE BatchLoop(self, i + 1, arg, env, predictions \o r.o.value, made \o r.calls)

get_all_predictions(self, f, env) ==
    IF f.shape = "none"
    THEN Stage(Raise("AttributeError", "'NoneType' object has no attribute 'items'"), <<>>)
    ELSE LET row == feature_values(convert_feature_names(f))
             pre == BatchPreprocess(self, row, env)
         IN  IF Raised(pre.o) THEN pre
             ELSE BatchLoop(self, 1, pre.o.value, env, <<>>, pre.calls)

(***************************************************************************)
(* The prediction routes (backend/app/routes/prediction.py).  A response   *)
(* is [status, detail, body]: an HTTPException carries status and detail,  *)
(* a returned response model is status 200 with a body.                    *)
(***************************************************************************)
\* error_code is the key of that name in the response content: the handlers
\* of main.py (lines 162-196) write none
HTTPException(status, detail) ==
    [status |-> status, detail |-> detail, body |-> <<>>, error_code |-> "None"]
Ok(body) == [status |-> 200, detail |-> "", body |-> body, error_code |-> "None"]

\* except Exception as e: raise HTTPException(500, ...) (prediction.py lines
\* 158-160 and 266-268): every error that is no HTTPException, of whatever
\* class, is answered 500 by http_exception_handler; the handlers of
\* error_handlers.py (lines 86-110) are registered nowhere
UnexpectedError(e, detail) == HTTPException(500, detail)

\* _find_transformer: "scaler" is the only candidate name the predictor has;
\* the scan of the other public attributes finds the one object with a
\* transform method, a fitted LabelEncoder.  Yields <<kind, attribute>>.
find_transformer(self) ==
    IF self.scaler = "transformer" THEN <<"transformer", "scaler">>
    ELSE IF self.scaler = "ndarray" THEN <<"ndarray", "scaler">>
    ELSE IF self.label_encoder.kind = "sklearn" THEN <<"transformer", "label_encoder">>
    ELSE <<"None", "None">>

\* the defensive check of both endpoints (lines 93-115 and 206-223)
TransformerCheck(self, endpoint) ==
    LET transformer == find_transformer(self) IN
    IF transformer[1] = "None"
    THEN Raise("HTTPException",
               IF endpoint = "predict"
               THEN "Server configuration error: preprocessor/scaler not found"
               ELSE "Server configuration error: preprocessor/scaler not found for comparison endpoint")
    ELSE IF transformer[1] = "ndarray"
         THEN Raise("HTTPException",
                    IF endpoint = "predict"
                    THEN "Server error: transformer is loaded as a numpy.ndarray"
                    ELSE "Server error: transformer is loaded as a numpy.ndarray for comparison endpoint")
         ELSE Return(transformer)

\* PredictionResponse / ModelPrediction: 0 <= x <= 1
InUnitInterval(x) == 0 <= x.num /\ x.num <= x.den

\* gemini_service.get_wine_explanation(features_dict, prediction, confidence)
\* as the handler calls it with the result r of predict; o is what it does
ExplanationCall(r, o) ==
    [obj |-> "gemini_service", method |-> "get_wine_explanation",
     prediction |-> r.prediction, confidence |-> r.confidence,
     ok |-> Returned(o), result |-> o]

\* mutant: an error of the explanation call fails the request
PredictionResponseStrict(r, env) ==
    IF ~(InUnitInterval(r.confidence) /\ InUnitInterval(r.probability_good))
       \/ Raised(env.explanation)
    THEN HTTPException(500, "Internal server error during prediction")
    ELSE Ok([prediction |-> r.prediction,
             confidence |-> r.confidence,
             probability_good |-> r.probability_good,
             gemini_insight |-> env.explanation.value,
             model_used |-> r.model_used])

\* lines 139-156: the explanation is fetched (an error leaves it None) and
\* the response model is built from the result r of predict; a field out of
\* its range is a validation error, which the handler turns into a 500
PredictionResponse(r, env) ==
    IF ~(InUnitInterval(r.confidence) /\ InUnitInterval(r.probability_good))
    THEN HTTPException(500, "Internal server error during prediction")
    ELSE Ok([prediction |-> r.prediction,
             confidence |-> r.confidence,
             probability_good |-> r.probability_good,
             gemini_insight |-> IF Returned(env.explanation)
                                THEN env.explanation.value ELSE "None",
             model_used |-> r.model_used])

\* ml_predictor.validate_features(features_dict) as a handler calls it; v is
\* the (valid, reason) pair it answered
ValidationCall(v) ==
    [obj |-> "ml_predictor", method |-> "validate_features",
     ok |-> Returned(v), result |-> v]

\* what the predictor a handler got from get_ml_predictor answers: "own" is
\* MLPredictor.validate_features on the request body; "rejects" is a
\* predictor that reports the body invalid (the stand-in the endpoint tests
\* install), since a body admitted by WineFeatures never fails the former;
\* any other value names the error class a stand-in predictor raises
ValidateFor(f, env) ==
    IF env.validation = "rejects" THEN Return(<<FALSE, "Invalid features">>)
    ELSE IF env.validation = "own" THEN validate_features(f)
         ELSE Raise(env.validation, "Model not available")

\* mutant: inference runs before the validation verdict is acted on
PredictHandlerLate(v, t, r, env) ==
    IF Raised(v)
    THEN Stage(UnexpectedError(v, "Internal server error during prediction"),
               <<ValidationCall(v)>>)
    ELSE IF Raised(t) THEN Stage(HTTPException(500, t.msg), <<ValidationCall(v)>>)
    ELSE IF ~v.value[1] THEN Stage(HTTPException(400, v.value[2]), <<ValidationCall(v)>> \o r.calls)
         ELSE IF Raised(r.o)
              THEN Stage(HTTPException(500, "Internal server error during prediction"),
                         <<ValidationCall(v)>> \o r.calls)
              ELSE Stage(PredictionResponse(r.o.value, env),
                         <<ValidationCall(v)>> \o
                         Append(r.calls, ExplanationCall(r.o.value, env.explanation)))

\* lines 76-160 once validate_features gave v, the transformer check gave t
\* and predict gave r
PredictHandler(v, t, r, env) ==
    IF Raised(v)
    THEN Stage(UnexpectedError(v, "Internal server error during prediction"),
               <<ValidationCall(v)>>)
    ELSE IF ~v.value[1] THEN Stage(HTTPException(400, v.value[2]), <<ValidationCall(v)>>)
    ELSE IF Raised(t) THEN Stage(HTTPException(500, t.msg), <<ValidationCall(v)>>)
         ELSE IF Raised(r.o)
              THEN Stage(HTTPException(500, "Internal server error during prediction"),
                         <<ValidationCall(v)>> \o r.calls)
              ELSE Stage(PredictionResponse(r.o.value, env),
                         <<ValidationCall(v)>> \o
                         Append(r.calls, ExplanationCall(r.o.value, env.explanation)))

\* predict_wine_quality (lines 76-160).  env.explanation is what
\* gemini_service.get_wine_explanation does.
predict_wine_quality(self, f, env) ==
    PredictHandler(ValidateFor(f, env), TransformerCheck(self, "predict"),
                   predict(self, f, env), env)

RECURSIVE CountOf(_, _)
\* Counter(predictions)[label]
CountOf(predictions, label) ==
    IF predictions = <<>> THEN 0
    ELSE (IF Head(predictions) = label THEN 1 ELSE 0) + CountOf(Tail(predictions), label)

RECURSIVE AllPredictionLabels(_)
\* mutant: the "Unknown" results are not filtered out
AllPredictionLabels(all_predictions) ==
    IF all_predictions = <<>> THEN <<>>
    ELSE <<Head(all_predictions).prediction>> \o AllPredictionLabels(Tail(all_predictions))

RECURSIVE KnownPredictions(_)
\* [p.prediction for p in all_predictions if p.prediction != "Unknown"]
KnownPredictions(all_predictions) ==
    IF all_predictions = <<>> THEN <<>>
    ELSE IF Head(all_predictions).prediction = Str("Unknown")
         THEN KnownPredictions(Tail(all_predictions))
         ELSE <<Head(all_predictions).prediction>> \o KnownPredictions(Tail(all_predictions))

\* mutant: among equal counts the label seen last wins
MostCommonLast(predictions) ==
    LET best == CHOOSE i \in 1..Len(predictions) :
                  /\ \A j \in 1..Len(predictions) :
                        CountOf(predictions, predictions[j]) <= CountOf(predictions, predictions[i])
                  /\ \A j \in (i + 1)..Len(predictions) :
                        CountOf(predictions, predictions[j]) < CountOf(predictions, predictions[i])
    IN  predictions[best]

\* Counter(predictions).most_common(1)[0][0]: the highest count, the label
\* seen first among equal counts
MostCommon(predictions) ==
    LET best == CHOOSE i \in 1..Len(predictions) :
                  /\ \A j \in 1..Len(predictions) :
                        CountOf(predictions, predictions[j]) <= CountOf(predictions, predictions[i])
                  /\ \A j \in 1..(i - 1) :
                        CountOf(predictions, predictions[j]) < CountOf(predictions, predictions[i])
    IN  predictions[best]

\* lines 234-244, for the labels that are not "Unknown"
ConsensusOf(predictions) ==
    IF predictions = <<>>
    THEN [consensus |-> Str("Unknown"), agreement_count |-> 0]
    ELSE [consensus |-> MostCommon(predictions),
          agreement_count |-> CountOf(predictions, MostCommon(predictions))]

Consensus(all_predictions) == ConsensusOf(KnownPredictions(all_predictions))

\* lines 246-251: the response model built from the list and its consensus c
ComparisonResponse(all_predictions, c) ==
    Ok([all_models_results |-> all_predictions,
        consensus |-> c.consensus,
        agreement_count |-> c.agreement_count,
        total_models |-> Len(all_predictions)])

\* lines 190-268 once validate_features gave v, the transformer check gave t
\* and get_all_predictions gave r
CompareHandler(v, t, r) ==
    IF Raised(v)
    THEN Stage(UnexpectedError(v, "Internal server error during model comparison"),
               <<ValidationCall(v)>>)
    ELSE IF ~v.value[1] THEN Stage(HTTPException(400, v.value[2]), <<ValidationCall(v)>>)
    ELSE IF Raised(t) THEN Stage(HTTPException(500, t.msg), <<ValidationCall(v)>>)
         ELSE IF Raised(r.o)
              THEN Stage(HTTPException(500, "Internal server error during model comparison"),
                         <<ValidationCall(v)>> \o r.calls)
              ELSE IF r.o.value = <<>>
                   THEN Stage(HTTPException(500, "No model predictions available"),
                              <<ValidationCall(v)>> \o r.calls)
                   ELSE Stage(ComparisonResponse(r.o.value, Consensus(r.o.value)),
                              <<ValidationCall(v)>> \o r.calls)

\* compare_models_prediction (lines 190-268)
compare_models_prediction(self, f, env) ==
    CompareHandler(ValidateFor(f, env), TransformerCheck(self, "compare"),
                   get_all_predictions(self, f, env))

(***************************************************************************)
(* MLPredictor.__init__ and _load_models (lines 26-179).  The models       *)
(* directory holds, for each artifact, what its .joblib and its .pkl file  *)
(* are: "absent", "truncated" (deserializing hits the end of the file),    *)
(* "malformed" (deserializing rejects the bytes) or the object saved.      *)
(* model_comparison.json is "absent", "malformed" or "ok".                 *)
(***************************************************************************)
\* A file that holds no object carries the model's None of its artifact.
File(state, obj) == [state |-> state, obj |-> obj]
Absent(none) == File("absent", none)
Truncated(none) == File("truncated", none)
Malformed(none) == File("malformed", none)
Saved(obj) == File("ok", obj)

Artifact(joblib, pkl) == [joblib |-> joblib, pkl |-> pkl]

NoDirectory == [best_model |-> Artifact(Absent(NoModel), Absent(NoModel)),
                scaler |-> Artifact(Absent("None"), Absent("None")),
                label_encoder |-> Artifact(Absent(NoEncoder), Absent(NoEncoder)),
                model_comparison |-> "absent"]

\* mutant: the .pkl name is tried first
PathOfPklFirst(artifact) == IF artifact.pkl.state # "absent" THEN "pkl" ELSE "joblib"

\* path = models_dir / "<name>.joblib"; if not path.exists(): path = models_dir / "<name>.pkl"
PathOf(artifact) == IF artifact.joblib.state # "absent" THEN "joblib" ELSE "pkl"
Exists(artifact) == artifact[PathOf(artifact)].state # "absent"

\* joblib.load(path) / pickle.load(f): the object, or the error of a corrupt file
Deserialize(file) ==
    IF file.state = "truncated" THEN Raise("EOFError", "Ran out of input")
    ELSE IF file.state = "malformed" THEN Raise("UnpicklingError", "invalid load key")
    ELSE Return(file.obj)

\* a load made by the constructor: which file, with which library, and whether it returned
LoadCall(name, artifact, o) ==
    [obj |-> IF PathOf(artifact) = "joblib" THEN "joblib" ELSE "pickle",
     method |-> "load", path |-> <<name, PathOf(artifact)>>, ok |-> Returned(o)]

\* lines 76-91: the estimator; a missing file is an error
LoadBestModel(dir) ==
    IF Exists(dir.best_model)
    THEN Stage(Deserialize(dir.best_model[PathOf(dir.best_model)]),
               <<LoadCall("best_model", dir.best_model,
                          Deserialize(dir.best_model[PathOf(dir.best_model)]))>>)
    ELSE Stage(Raise("FileNotFoundError", "Best model file not found"), <<>>)

\* try: pickle.load(f) except EOFError: the artifact is None (lines 105-109
\* and 127-131); joblib.load is not guarded.  none is the model's None for
\* the artifact.
LoadGuarded(name, artifact, none) ==
    IF PathOf(artifact) = "pkl" /\ artifact.pkl.state = "truncated"
    THEN Stage(Return(none), <<LoadCall(name, artifact, Deserialize(artifact.pkl))>>)
    ELSE Stage(Deserialize(artifact[PathOf(artifact)]),
               <<LoadCall(name, artifact, Deserialize(artifact[PathOf(artifact)]))>>)

\* lines 93-113: the scaler; a missing file is an error
LoadScaler(dir) ==
    IF Exists(dir.scaler) THEN LoadGuarded("scaler", dir.scaler, "None")
    ELSE Stage(Raise("FileNotFoundError", "Scaler file not found"), <<>>)

\* mutant: a missing label decoder file is an error
LoadLabelEncoderRequired(dir) ==
    IF Exists(dir.label_encoder) THEN LoadGuarded("label_encoder", dir.label_encoder, NoEncoder)
    ELSE Stage(Raise("FileNotFoundError", "Label encoder file not found"), <<>>)

\* lines 115-135: the label decoder; a missing file leaves it None
LoadLabelEncoder(dir) ==
    IF Exists(dir.label_encoder) THEN LoadGuarded("label_encoder", dir.label_encoder, NoEncoder)
    ELSE Stage(Return(NoEncoder), <<>>)

\* lines 137-164: a raw array of class names is wrapped
WrapLabelEncoder(loaded) ==
    IF loaded.kind = "ndarray" THEN Encoder("simple", loaded.classes) ELSE loaded

\* lines 166-172: json.load(f) of model_comparison.json
LoadModelInfo(dir) ==
    IF dir.model_comparison = "absent" THEN Stage(Return("None"), <<>>)
    ELSE IF dir.model_comparison = "malformed"
         THEN Stage(Raise("JSONDecodeError", "Expecting value"),
                    <<[obj |-> "json", method |-> "load",
                       path |-> <<"model_comparison", "json">>, ok |-> FALSE]>>)
         ELSE Stage(Return("model_info"),
                    <<[obj |-> "json", method |-> "load",
                       path |-> <<"model_comparison", "json">>, ok |-> TRUE]>>)

\* lines 166-175 once the three artifacts m, sc, le are loaded
LoadRest(dir, m, sc, le, info) ==
    IF Raised(info.o)
    THEN Stage(info.o, m.calls \o sc.calls \o le.calls \o info.calls)
    ELSE Stage(Return([best_model |-> m.o.value, scaler |-> sc.o.value,
                       label_encoder |-> WrapLabelEncoder(le.o.value),
                       all_models |-> << [name |-> "Best Model", model |-> m.o.value] >>,
                       model_info |-> info.o.value]),
               m.calls \o sc.calls \o le.calls \o info.calls)

\* _load_models given what loading each artifact does; the except clause
\* (lines 177-179) and @log_errors log the error and re-raise it
LoadSequence(dir, m, sc, le) ==
    IF Raised(m.o) THEN m
    ELSE IF Raised(sc.o) THEN Stage(sc.o, m.calls \o sc.calls)
         ELSE IF Raised(le.o) THEN Stage(le.o, m.calls \o sc.calls \o le.calls)
              ELSE LoadRest(dir, m, sc, le, LoadModelInfo(dir))

\* MLPredictor(models_dir): __init__ sets the fields to None and calls
\* _load_models; an error leaves the caller without an instance
load_models(dir) ==
    LoadSequence(dir, LoadBestModel(dir), LoadScaler(dir), LoadLabelEncoder(dir))

(***************************************************************************)
(* The specifications.  Each draws the inputs of one operation from the    *)
(* bounded sets above and runs the operation once.                         *)
(***************************************************************************)
NoPredictor == [best_model |-> NoModel, scaler |-> "None", label_encoder |-> NoEncoder,
                all_models |-> <<>>, model_info |-> "None"]

\* the global ml_predictor: None (id 0), or the instance with the number of
\* the construction that made it
NoInstance == [id |-> 0, instance |-> NoPredictor]
Instance(id, instance) == [id |-> id, instance |-> instance]

\* no call of _generate_with_retry is under way
NoRetry == [prompt |-> "", max_retries |-> 0, attempt |-> 0]

\* no collaborator is loaded: nothing can be called
NoWorld == [transform |-> "ok", predict |-> EstimatorError, proba |-> EstimatorError,
            coerce |-> FALSE]

\* @log_errors: logs an exception and re-raises it; a return passes through
log_errors(o) == o

InitValidate ==
    /\ features \in FeatureInputs
    /\ predictor = NoPredictor
    /\ pc = "idle"
    /\ out = Return(<<>>)
    /\ calls = <<>>
    /\ models_dir = NoDirectory
    /\ ml_predictor = NoInstance
    /\ gemini = NoRetry
    /\ world = NoWorld

DoValidate ==
    /\ pc = "idle"
    /\ out' = log_errors(validate_features(features))
    /\ pc' = "done"
    /\ UNCHANGED <<features, predictor, calls, models_dir, ml_predictor, gemini, world>>

NextValidate == DoValidate

SpecValidate == InitValidate /\ [][NextValidate]_vars


\* the predictors predict() is run on: every combination of artifacts
Predictor(model, scaler, le, registry) ==
    [best_model |-> model, scaler |-> scaler, label_encoder |-> le, all_models |-> registry,
     model_info |-> "None"]

\* _load_all_models: the registry holds "Best Model" -> best_model
Registry(model) == << [name |-> "Best Model", model |-> model] >>

Predictors ==
    { Predictor(m, sc, le, Registry(m)) :
        m \in Estimators \cup {NoModel}, sc \in Scalers, le \in Encoders }

\* the feature mappings predict() is run on: the full wire mapping, one
\* without "ph", and one with an extra key
WireFloats(order) == Mapping(order, [k \in SeqToSet(order) |-> "float"])
PredictFeatures ==
    { WireFloats(wire_features),
      WireFloats(SelectSeqIn(wire_features, SeqToSet(wire_features) \ {"ph"})),
      WireFloats(wire_features \o <<"extra_feature">>) }

\* the behaviours of the collaborators that the predictor can observe
EnvsFor(self) ==
    [transform : IF self.scaler = "transformer" THEN {"ok", "raise"} ELSE {"ok"},
     predict : PredictOutcomes,
     proba : IF self.best_model.final_proba THEN ProbaOutcomes ELSE {EstimatorError}]

InitPredict ==
    /\ features \in PredictFeatures
    /\ predictor \in Predictors
    /\ pc = "idle"
    /\ out = Return(<<>>)
    /\ calls = <<>>
    /\ models_dir = NoDirectory
    /\ ml_predictor = NoInstance
    /\ gemini = NoRetry
    /\ world = NoWorld

DoPredict ==
    /\ pc = "idle"
    /\ \E env \in EnvsFor(predictor) :
          LET r == predict(predictor, features, env) IN
          /\ out' = log_errors(r.o)
          /\ calls' = r.calls
    /\ pc' = "done"
    /\ UNCHANGED <<features, predictor, models_dir, ml_predictor, gemini, world>>

NextPredict == DoPredict

SpecPredict == InitPredict /\ [][NextPredict]_vars

\* the registries get_all_predictions is run on: up to MaxModels entries
RegistryNames == [i \in 1..(MaxModels + 1) |->
                    IF i = 1 THEN "Best Model" ELSE IF i = 2 THEN "Model 2"
                    ELSE IF i = 3 THEN "Model 3" ELSE "Model 4"]
RegistryModels == {Classifier, Regressor, NoModel}
Registries ==
    UNION { { [i \in 1..n |-> [name |-> RegistryNames[i], model |-> ms[i]]] :
                ms \in [1..n -> RegistryModels] } : n \in 0..MaxModels }

BatchEncoders == { NoEncoder,
                   Encoder("simple", <<Str("Bad"), Str("Good")>>),
                   Encoder("sklearn", <<Str("Bad"), Str("Good")>>),
                   Encoder("list", <<Str("Bad"), Str("Good")>>) }

BatchPredictors ==
    { Predictor(IF r = <<>> THEN NoModel ELSE r[1].model, sc, le, r) :
        r \in Registries, sc \in Scalers, le \in BatchEncoders }

\* what a registered model's calls do
BatchPredictOutcomes ==
    { EstimatorError, Return(Num(0)), Return(Num(Den)), Return(Num(7 * Den)),
      Return(Str("Good")) }
BatchProbaOutcomes ==
    { EstimatorError, Return(<<1, PScale - 1>>), Return(<<PScale, 0>>) }

ModelEnvsFor(model) ==
    [predict : IF model.kind = "None" THEN {EstimatorError} ELSE BatchPredictOutcomes,
     proba : IF model.final_proba THEN BatchProbaOutcomes ELSE {EstimatorError}]

RECURSIVE ModelEnvSeqs(_, _)
\* the sequences of model behaviours for entries i.. of the registry
ModelEnvSeqs(registry, i) ==
    IF i > Len(registry) THEN { <<>> }
    ELSE { <<m>> \o rest : m \in ModelEnvsFor(registry[i].model),
                           rest \in ModelEnvSeqs(registry, i + 1) }

BatchEnvsFor(self) ==
    [transform : IF self.scaler = "transformer" THEN {"ok", "raise"} ELSE {"ok"},
     coerce : BOOLEAN,
     models : ModelEnvSeqs(self.all_models, 1)]

InitBatch ==
    /\ features = WireFloats(wire_features)
    /\ predictor \in BatchPredictors
    /\ pc = "idle"
    /\ out = Return(<<>>)
    /\ calls = <<>>
    /\ models_dir = NoDirectory
    /\ ml_predictor = NoInstance
    /\ gemini = NoRetry
    /\ world = NoWorld

DoGetAllPredictions ==
    /\ pc = "idle"
    /\ \E env \in BatchEnvsFor(predictor) :
          LET r == get_all_predictions(predictor, features, env) IN
          /\ out' = log_errors(r.o)
          /\ calls' = r.calls
    /\ pc' = "done"
    /\ UNCHANGED <<features, predictor, models_dir, ml_predictor, gemini, world>>

NextBatch == DoGetAllPredictions

SpecBatch == InitBatch /\ [][NextBatch]_vars

\* the predictors the routes are run on: _load_all_models registers the
\* loaded estimator alone, as "Best Model"
RoutePredictors ==
    { Predictor(m, sc, le, Registry(m)) :
        m \in {Classifier, Regressor, PipeScalerClf, NoModel},
        sc \in Scalers, le \in BatchEncoders }

\* the request bodies: WineFeatures admits only the 11 wire names, each a
\* float within its range, so wine_features.dict() is always such a mapping
RouteFeatures == { WireFloats(wire_features) }

\* get_wine_explanation returns the generated text or the canned fallback
\* text, or raises
ExplanationOutcomes == { Return("explanation"), Return("fallback"),
                         Raise("RuntimeError", "explanation failed") }

RoutePredictEnvsFor(self) ==
    [transform : IF self.scaler = "transformer" THEN {"ok", "raise"} ELSE {"ok"},
     predict : BatchPredictOutcomes \cup {Return(Num((13 * Den) \div 2)), Return(NaN)},
     proba : IF self.best_model.final_proba THEN BatchProbaOutcomes ELSE {EstimatorError},
     explanation : ExplanationOutcomes,
     validation : {"own", "rejects", "ModelNotLoadedError", "ValidationError"}]

RouteCompareEnvsFor(self) ==
    { [transform |-> e.transform, coerce |-> e.coerce, models |-> e.models,
       validation |-> val] : e \in BatchEnvsFor(self), val \in {"own", "rejects"} }

InitRoute ==
    /\ features \in RouteFeatures
    /\ predictor \in RoutePredictors
    /\ pc = "idle"
    /\ out = HTTPException(0, "")
    /\ calls = <<>>
    /\ models_dir = NoDirectory
    /\ ml_predictor = NoInstance
    /\ gemini = NoRetry
    /\ world = NoWorld

DoPredictEndpoint ==
    /\ pc = "idle"
    /\ \E env \in RoutePredictEnvsFor(predictor) :
          LET r == predict_wine_quality(predictor, features, env) IN
          /\ out' = r.o
          /\ calls' = r.calls
    /\ pc' = "predict"
    /\ UNCHANGED <<features, predictor, models_dir, ml_predictor, gemini, world>>

DoCompareEndpoint ==
    /\ pc = "idle"
    /\ \E env \in RouteCompareEnvsFor(predictor) :
          LET r == compare_models_prediction(predictor, features, env) IN
          /\ out' = r.o
          /\ calls' = r.calls
    /\ pc' = "compare"
    /\ UNCHANGED <<features, predictor, models_dir, ml_predictor, gemini, world>>

NextRoute == DoPredictEndpoint \/ DoCompareEndpoint

SpecRoute == InitRoute /\ [][NextRoute]_vars

\* the predictors a comparison is run on: a registry of up to MaxResults
\* classifiers behind a working scaler, no label decoder
CompareRegistries ==
    { [i \in 1..n |-> [name |-> RegistryNames[i], model |-> Classifier]] : n \in 0..MaxResults }
ComparePredictors ==
    { Predictor(Classifier, "transformer", NoEncoder, r) : r \in CompareRegistries }

\* what a compared model's calls do: it raises, or names one of three labels
CompareModelEnvs ==
    [predict : { EstimatorError, Return(Str("Good")), Return(Str("Bad")), Return(Str("Average")) },
     proba : { Return(<<1, PScale - 1>>), Return(<<PScale, 0>>) }]

CompareEnvsFor(self) ==
    [transform : {"ok"}, coerce : {TRUE}, validation : {"own"},
     models : [1..Len(self.all_models) -> CompareModelEnvs]]

InitCompare ==
    /\ features = WireFloats(wire_features)
    /\ predictor \in ComparePredictors
    /\ pc = "idle"
    /\ out = HTTPException(0, "")
    /\ calls = <<>>
    /\ models_dir = NoDirectory
    /\ ml_predictor = NoInstance
    /\ gemini = NoRetry
    /\ world = NoWorld

DoCompare ==
    /\ pc = "idle"
    /\ \E env \in CompareEnvsFor(predictor) :
          LET r == compare_models_prediction(predictor, features, env) IN
          /\ out' = r.o
          /\ calls' = r.calls
    /\ pc' = "compare"
    /\ UNCHANGED <<features, predictor, models_dir, ml_predictor, gemini, world>>

NextCompare == DoCompare

SpecCompare == InitCompare /\ [][NextCompare]_vars

\* the models directories a predictor is constructed from
BestModelFiles == {Absent(NoModel), Truncated(NoModel), Saved(Classifier)}
ScalerFiles == {Absent("None"), Truncated("None"), Malformed("None"), Saved("transformer")}
LabelEncoderFiles ==
    {Absent(NoEncoder), Truncated(NoEncoder), Saved(Encoder("sklearn", <<Str("Bad"), Str("Good")>>)),
     Saved(Encoder("ndarray", <<Str("Bad"), Str("Good")>>))}
Directories ==
    [best_model : { Artifact(j, p) : j \in BestModelFiles, p \in BestModelFiles },
     scaler : { Artifact(j, p) : j \in ScalerFiles, p \in ScalerFiles },
     label_encoder : { Artifact(j, p) : j \in LabelEncoderFiles, p \in LabelEncoderFiles },
     model_comparison : {"absent", "malformed", "ok"}]

InitLoad ==
    /\ features = NoneFeatures
    /\ predictor = NoPredictor
    /\ pc = "idle"
    /\ out = Return(<<>>)
    /\ calls = <<>>
    /\ models_dir \in Directories
    /\ ml_predictor = NoInstance
    /\ gemini = NoRetry
    /\ world = NoWorld

\* MLPredictor(models_dir): the instance exists only if _load_models returned
DoConstruct ==
    /\ pc = "idle"
    /\ LET r == load_models(models_dir) IN
       /\ out' = log_errors(r.o)
       /\ calls' = r.calls
       /\ predictor' = IF Returned(r.o) THEN r.o.value ELSE predictor
    /\ pc' = "done"
    /\ UNCHANGED <<features, models_dir, ml_predictor, gemini, world>>

NextLoad == DoConstruct

SpecLoad == InitLoad /\ [][NextLoad]_vars

(***************************************************************************)
(* The process-wide predictor (ml_service.py lines 548-579) and the        *)
(* application's startup (main.py lines 25-63).  The route handlers are    *)
(* coroutines of one event loop and the accessors never await, so each     *)
(* accessor call runs to its end before the next begins.  calls records,   *)
(* for each accessor call, whether it constructed a predictor (loaded the  *)
(* artifacts), how the load ended, and the instance in the global after it.*)
(***************************************************************************)
Access(fn, loaded, o, id) ==
    [obj |-> "ml_service", method |-> fn, loaded |-> loaded,
     ok |-> Returned(o), error |-> o.error, id |-> id]

\* what an accessor call leaves: the global, its outcome, its record
Accessed(global, o, access) == [global |-> global, o |-> o, access |-> access]

\* get_ml_predictor(): constructs only while the global is None; r is what
\* MLPredictor() does, n the number of the instance it would make
get_ml_predictor(global, r, n) ==
    IF global.id = 0
    THEN IF Returned(r.o)
         THEN Accessed(Instance(n, r.o.value), Return(Instance(n, r.o.value)),
                       Access("get_ml_predictor", TRUE, r.o, n))
         ELSE Accessed(global, r.o, Access("get_ml_predictor", TRUE, r.o, 0))
    ELSE Accessed(global, Return(global),
                  Access("get_ml_predictor", FALSE, Return(global), global.id))

\* initialize_ml_predictor(): always constructs; an error is logged and
\* answered with False, the global keeps what it held
initialize_ml_predictor(global, r, n) ==
    IF Returned(r.o)
    THEN Accessed(Instance(n, r.o.value), Return(TRUE),
                  Access("initialize_ml_predictor", TRUE, r.o, n))
    ELSE Accessed(global, Return(FALSE),
                  Access("initialize_ml_predictor", TRUE, r.o, global.id))

\* lifespan, up to the yield: a failed initialization raises RuntimeError and
\* the server exits; otherwise the predictor is fetched for the service test.
\* The Gemini steps are guarded and do not touch the predictor.
lifespan(global, r, n) ==
    LET init == initialize_ml_predictor(global, r, n) IN
    IF ~init.o.value
    THEN [global |-> init.global,
          o |-> Raise("RuntimeError", "ML predictor initialization failed"),
          accesses |-> <<init.access>>]
    ELSE [global |-> init.global,
          o |-> Return(init.global),
          accesses |-> <<init.access,
                         get_ml_predictor(init.global, r, n + 1).access>>]

\* the models directories of the process: complete, without the label
\* decoder, without the estimator, without the scaler, and with a scaler
\* file that cannot be deserialized
CompleteDirectory ==
    [best_model |-> Artifact(Saved(Classifier), Absent(NoModel)),
     scaler |-> Artifact(Saved("transformer"), Absent("None")),
     label_encoder |-> Artifact(Absent(NoEncoder),
                                Saved(Encoder("sklearn", <<Str("Bad"), Str("Good")>>))),
     model_comparison |-> "ok"]
ProcessDirectories ==
    { CompleteDirectory,
      [CompleteDirectory EXCEPT !.label_encoder = Artifact(Absent(NoEncoder), Absent(NoEncoder))],
      [CompleteDirectory EXCEPT !.best_model = Artifact(Absent(NoModel), Absent(NoModel))],
      [CompleteDirectory EXCEPT !.scaler = Artifact(Absent("None"), Absent("None"))],
      [CompleteDirectory EXCEPT !.scaler = Artifact(Malformed("None"), Absent("None"))] }

\* the number of the next instance MLPredictor() makes
NextInstance == Cardinality({ i \in 1..Len(calls) : calls[i].loaded }) + 1

InitSingleton ==
    /\ features = NoneFeatures
    /\ predictor = NoPredictor
    /\ pc = "running"
    /\ out = Return(<<>>)
    /\ calls = <<>>
    /\ models_dir \in ProcessDirectories
    /\ ml_predictor = NoInstance
    /\ gemini = NoRetry
    /\ world = NoWorld

\* a caller (a route handler serving a request) fetches the predictor
GetMlPredictorStep(a) ==
    /\ ml_predictor' = a.global
    /\ out' = a.o
    /\ calls' = Append(calls, a.access)
    /\ predictor' = IF Returned(a.o) THEN a.o.value.instance ELSE predictor

GetMlPredictor ==
    /\ pc = "running"
    /\ Len(calls) < MaxCalls
    /\ GetMlPredictorStep(get_ml_predictor(ml_predictor, load_models(models_dir), NextInstance))
    /\ UNCHANGED <<features, pc, models_dir, gemini, world>>

\* a caller initializes the predictor directly
InitializeMlPredictorStep(a) ==
    /\ ml_predictor' = a.global
    /\ out' = a.o
    /\ calls' = Append(calls, a.access)

InitializeMlPredictor ==
    /\ pc = "running"
    /\ Len(calls) < MaxCalls
    /\ InitializeMlPredictorStep(
           initialize_ml_predictor(ml_predictor, load_models(models_dir), NextInstance))
    /\ UNCHANGED <<features, predictor, pc, models_dir, gemini, world>>

\* the server (or a test client used as a context manager) starts the app
LifespanStep(l) ==
    /\ ml_predictor' = l.global
    /\ out' = l.o
    /\ calls' = calls \o l.accesses
    /\ pc' = IF Raised(l.o) THEN "exited" ELSE "running"

Lifespan ==
    /\ pc = "running"
    /\ Len(calls) < MaxCalls
    /\ LifespanStep(lifespan(ml_predictor, load_models(models_dir), NextInstance))
    /\ UNCHANGED <<features, predictor, models_dir, gemini, world>>

NextSingleton == GetMlPredictor \/ InitializeMlPredictor \/ Lifespan

SpecSingleton == InitSingleton /\ [][NextSingleton]_vars

(***************************************************************************)
(* The two sulfur dioxide checks: check_so2_relationship                   *)
(* (utils/error_handlers.py lines 185-201) and the validator of            *)
(* WineFeatures.total_sulfur_dioxide (utils/validators.py lines 48-59 and  *)
(* 85-90).  A feature set is a function from the keys it holds to amounts. *)
(* A rejection carries, in its value, the amounts its message spells out.  *)
(***************************************************************************)
FreeSo2Limit == 300
TotalSo2Limit == 500

Rejected(error, msg, named) == [kind |-> "raise", value |-> named, error |-> error, msg |-> msg]

\* features.get(key, 0)
GetOrZero(f, key) == IF key \in DOMAIN f THEN f[key] ELSE 0

\* mutant: equal amounts are rejected too
check_so2_relationship_strict(f) ==
    IF GetOrZero(f, "total_sulfur_dioxide") <= GetOrZero(f, "free_sulfur_dioxide")
    THEN Rejected("ValidationError", "Total sulfur dioxide must be >= free sulfur dioxide",
                  <<GetOrZero(f, "total_sulfur_dioxide"), GetOrZero(f, "free_sulfur_dioxide")>>)
    ELSE Return(<<>>)

\* check_so2_relationship(features): a missing key counts as 0
check_so2_relationship(f) ==
    IF GetOrZero(f, "total_sulfur_dioxide") < GetOrZero(f, "free_sulfur_dioxide")
    THEN Rejected("ValidationError", "Total sulfur dioxide must be >= free sulfur dioxide",
                  <<GetOrZero(f, "total_sulfur_dioxide"), GetOrZero(f, "free_sulfur_dioxide")>>)
    ELSE Return(<<>>)

\* a required float field with ge=0 and le=limit: the error of the field, or "" 
FieldError(f, key, limit) ==
    IF key \notin DOMAIN f THEN "field required"
    ELSE IF f[key] < 0 THEN "ensure this value is greater than or equal to 0"
    ELSE IF f[key] > limit THEN "ensure this value is less than or equal to the limit"
    ELSE ""

\* validate_total_so2(cls, v, values): runs once the field itself is valid;
\* values holds free_sulfur_dioxide only if that field was valid
validate_total_so2(f) ==
    IF FieldError(f, "total_sulfur_dioxide", TotalSo2Limit) # ""
    THEN FieldError(f, "total_sulfur_dioxide", TotalSo2Limit)
    ELSE IF /\ FieldError(f, "free_sulfur_dioxide", FreeSo2Limit) = ""
            /\ f["total_sulfur_dioxide"] < f["free_sulfur_dioxide"]
         THEN "Total sulfur dioxide must be >= free sulfur dioxide"
         ELSE ""

\* WineFeatures(**f), the two sulfur dioxide fields: the errors by field, in
\* field order; the message of the validator names no amount
WineFeaturesSo2(f) ==
    IF FieldError(f, "free_sulfur_dioxide", FreeSo2Limit) = "" /\ validate_total_so2(f) = ""
    THEN Return(<<>>)
    ELSE [kind |-> "raise", value |-> <<>>, error |-> "RequestValidationError",
          msg |-> <<FieldError(f, "free_sulfur_dioxide", FreeSo2Limit), validate_total_so2(f)>>]

So2Amounts == (-1 .. SO2Max) \cup {FreeSo2Limit + 1, TotalSo2Limit + 1}
So2FeatureSets ==
    UNION { [keys -> So2Amounts] :
              keys \in SUBSET {"free_sulfur_dioxide", "total_sulfur_dioxide"} }

InitSO2 ==
    /\ features \in So2FeatureSets
    /\ predictor = NoPredictor
    /\ pc = "idle"
    /\ out = Return(<<>>)
    /\ calls = <<>>
    /\ models_dir = NoDirectory
    /\ ml_predictor = NoInstance
    /\ gemini = NoRetry
    /\ world = NoWorld

DoCheckSo2Relationship ==
    /\ pc = "idle"
    /\ out' = check_so2_relationship(features)
    /\ pc' = "check_so2_relationship"
    /\ UNCHANGED <<features, predictor, calls, models_dir, ml_predictor, gemini, world>>

DoWineFeatures ==
    /\ pc = "idle"
    /\ out' = WineFeaturesSo2(features)
    /\ pc' = "WineFeatures"
    /\ UNCHANGED <<features, predictor, calls, models_dir, ml_predictor, gemini, world>>

NextSO2 == DoCheckSo2Relationship \/ DoWineFeatures

SpecSO2 == InitSO2 /\ [][NextSO2]_vars

(***************************************************************************)
(* Schema translation and column ordering (ml_service.py lines 46-70 and   *)
(* 211-224) against validate_features, on the same feature mapping.  The   *)
(* mappings differ in their keys (wire keys dropped, a key already in      *)
(* model form, an unknown key), in their iteration order and in which keys *)
(* hold an int rather than a float, so that every column is told apart.    *)
(***************************************************************************)
ConvertDroppable == {"fixed_acidity", "ph"}
ConvertExtra == {"pH", "extra_feature"}
ConvertVary == {"fixed_acidity", "ph", "alcohol", "pH"}

RECURSIVE Reverse(_)
Reverse(seq) == IF seq = <<>> THEN <<>> ELSE Reverse(Tail(seq)) \o <<Head(seq)>>

ConvertOrders ==
    UNION { { o, Reverse(o) } :
              o \in { SelectSeqIn(wire_features, SeqToSet(wire_features) \ d)
                        \o SelectSeqIn(<<"pH", "extra_feature">>, e)
                      : d \in SUBSET ConvertDroppable, e \in SUBSET ConvertExtra } }

ConvertFeatures ==
    UNION { { Mapping(o, [k \in SeqToSet(o) |-> IF k \in ConvertVary THEN v[k] ELSE "float"])
                : v \in [ConvertVary -> {"float", "int"}] } : o \in ConvertOrders }

\* a loaded predictor with a working scaler, and collaborators that answer
ConvertPredictor == Predictor(Classifier, "transformer", NoEncoder, Registry(Classifier))
ConvertEnv == [transform |-> "ok", predict |-> Return(Num(Den)),
               proba |-> Return(<<1, PScale - 1>>)]

InitConvert ==
    /\ features \in ConvertFeatures
    /\ predictor = ConvertPredictor
    /\ pc = "idle"
    /\ out = Return(<<>>)
    /\ calls = <<>>
    /\ models_dir = NoDirectory
    /\ ml_predictor = NoInstance
    /\ gemini = NoRetry
    /\ world = NoWorld

DoPredictOn ==
    /\ pc = "idle"
    /\ LET r == predict(predictor, features, ConvertEnv) IN
          /\ out' = log_errors(r.o)
          /\ calls' = r.calls
    /\ pc' = "predict"
    /\ UNCHANGED <<features, predictor, models_dir, ml_predictor, gemini, world>>

DoValidateOn ==
    /\ pc = "idle"
    /\ out' = log_errors(validate_features(features))
    /\ pc' = "validate_features"
    /\ UNCHANGED <<features, predictor, calls, models_dir, ml_predictor, gemini, world>>

NextConvert == DoPredictOn \/ DoValidateOn

SpecConvert == InitConvert /\ [][NextConvert]_vars

(***************************************************************************)
(* GeminiService._generate_with_retry (gemini_service.py lines 110-138),   *)
(* step by step: pc is "loop" at the head of the for loop, "sleep" inside  *)
(* time.sleep, "done" once the method has returned or raised.  calls       *)
(* records the generate_content and time.sleep calls.                      *)
(***************************************************************************)
DefaultMaxRetries == 3

RECURSIVE Pow2(_)
Pow2(k) == IF k = 0 THEN 1 ELSE 2 * Pow2(k - 1)

\* mutant: the delay grows by one second per attempt
wait_time_linear(attempt) == attempt + 1

\* wait_time = 2 ** attempt
wait_time(attempt) == Pow2(attempt)

\* what self.model.generate_content(prompt) does: a response with text, a
\* response without, or one of two errors of the API
GenerateOutcomes ==
    { Return("response"), Return("empty response"),
      Raise("ResourceExhausted", "quota"), Raise("ServiceUnavailable", "unavailable") }

GenerateCall(prompt, attempt, o) ==
    [obj |-> "model", method |-> "generate_content", prompt |-> prompt,
     attempt |-> attempt, seconds |-> 0, ok |-> Returned(o), result |-> o]
SleepCall(attempt, seconds) ==
    [obj |-> "time", method |-> "sleep", prompt |-> "",
     attempt |-> attempt, seconds |-> seconds, ok |-> TRUE, result |-> Return("None")]

InitRetry ==
    /\ features = NoneFeatures
    /\ predictor = NoPredictor
    /\ pc = "loop"
    /\ out = Return("None")
    /\ calls = <<>>
    /\ models_dir = NoDirectory
    /\ ml_predictor = NoInstance
    /\ gemini \in [prompt : {"prompt"}, max_retries : 0..MaxRetries, attempt : {0}]
    /\ world = NoWorld

\* try: response = self.model.generate_content(prompt); return response
\* except Exception: sleep if attempt < max_retries - 1, else raise
Generate ==
    /\ pc = "loop"
    /\ gemini.attempt < gemini.max_retries
    /\ \E o \in GenerateOutcomes :
          /\ calls' = Append(calls, GenerateCall(gemini.prompt, gemini.attempt, o))
          /\ IF Returned(o) THEN pc' = "done" /\ out' = o
             ELSE IF gemini.attempt < gemini.max_retries - 1
                  THEN pc' = "sleep" /\ out' = out
                  ELSE pc' = "done" /\ out' = log_errors(o)
    /\ UNCHANGED <<features, predictor, models_dir, ml_predictor, gemini, world>>

\* time.sleep(wait_time) returns and the loop goes to the next attempt
Sleep ==
    /\ pc = "sleep"
    /\ calls' = Append(calls, SleepCall(gemini.attempt, wait_time(gemini.attempt)))
    /\ gemini' = [gemini EXCEPT !.attempt = @ + 1]
    /\ pc' = "loop"
    /\ UNCHANGED <<features, predictor, out, models_dir, ml_predictor, world>>

\* range(max_retries) is exhausted: return None
Exhausted ==
    /\ pc = "loop"
    /\ gemini.attempt >= gemini.max_retries
    /\ out' = Return("None")
    /\ pc' = "done"
    /\ UNCHANGED <<features, predictor, calls, models_dir, ml_predictor, gemini, world>>

NextRetry == Generate \/ Sleep \/ Exhausted

SpecRetry == InitRetry /\ [][NextRetry]_vars

\* generate_content and time.sleep return or raise, and the loop goes on
SpecRetryFair == SpecRetry /\ WF_vars(NextRetry)

(***************************************************************************)
(* A loaded predictor in use (ml_service.py lines 196-545).  After a       *)
(* successful load the methods predict, get_all_predictions,               *)
(* validate_features and get_model_info are called in any order on the     *)
(* same instance.  The collaborators are the loaded objects, so what they  *)
(* do for the one feature row is fixed (world).  out is the log of the     *)
(* method calls so far, each with its outcome; calls holds the             *)
(* collaborator calls of the latest method call.                           *)
(***************************************************************************)
\* mutant: a method call empties the registry
UseClearingRegistry(method, r) ==
    /\ out' = Append(out, [method |-> method, o |-> log_errors(r.o)])
    /\ calls' = r.calls
    /\ predictor' = [predictor EXCEPT !.all_models = <<>>]
    /\ UNCHANGED <<features, pc, models_dir, ml_predictor, gemini, world>>

\* one call of a method whose body gave r: none of the four methods assigns
\* to an attribute of self
Use(method, r) ==
    /\ out' = Append(out, [method |-> method, o |-> log_errors(r.o)])
    /\ calls' = r.calls
    /\ UNCHANGED <<features, predictor, pc, models_dir, ml_predictor, gemini, world>>

\* MLPredictor.get_model_info (lines 476-505)
get_model_info(self) ==
    Return([best_model_loaded |-> self.best_model.kind # "None",
            scaler_loaded |-> self.scaler # "None",
            label_encoder_loaded |-> self.label_encoder.kind # "None",
            total_models |-> Len(self.all_models),
            model_names |-> [i \in 1..Len(self.all_models) |-> self.all_models[i].name],
            comparison |-> self.model_info # "None"])

\* the predictors a successful load leaves: an estimator, whatever the
\* scaler and decoder files gave, the metadata if its file was there, and
\* the registry _load_all_models built
LoadedPredictors ==
    { [Predictor(m, sc, le, Registry(m)) EXCEPT !.model_info = info] :
        m \in {Classifier, Regressor, PipeScalerClf}, sc \in Scalers,
        le \in {NoEncoder, Encoder("sklearn", <<Str("Bad"), Str("Good")>>)},
        info \in {"None", "model_info"} }

WorldsFor(self) ==
    [transform : IF self.scaler = "transformer" THEN {"ok", "raise"} ELSE {"ok"},
     predict : {EstimatorError, Return(Num(Den)), Return(Num(7 * Den))},
     proba : IF self.best_model.final_proba
             THEN {EstimatorError, Return(<<1, PScale - 1>>)} ELSE {EstimatorError},
     coerce : BOOLEAN]

\* what predict and get_all_predictions observe of the world
PredictEnv(w) == [transform |-> w.transform, predict |-> w.predict, proba |-> w.proba]
BatchEnv(w) ==
    [transform |-> w.transform, coerce |-> w.coerce,
     models |-> << [predict |-> w.predict, proba |-> w.proba] >>]

InitUse ==
    /\ features \in { WireFloats(wire_features),
                      WireFloats(SelectSeqIn(wire_features, SeqToSet(wire_features) \ {"ph"})) }
    /\ predictor \in LoadedPredictors
    /\ world \in WorldsFor(predictor)
    /\ pc = "ready"
    /\ out = <<>>
    /\ calls = <<>>
    /\ models_dir = NoDirectory
    /\ ml_predictor = NoInstance
    /\ gemini = NoRetry

UsePredict ==
    /\ pc = "ready" /\ Len(out) < MaxUses
    /\ Use("predict", predict(predictor, features, PredictEnv(world)))

UseGetAllPredictions ==
    /\ pc = "ready" /\ Len(out) < MaxUses
    /\ Use("get_all_predictions", get_all_predictions(predictor, features, BatchEnv(world)))

UseValidateFeatures ==
    /\ pc = "ready" /\ Len(out) < MaxUses
    /\ Use("validate_features", Stage(validate_features(features), <<>>))

UseGetModelInfo ==
    /\ pc = "ready" /\ Len(out) < MaxUses
    /\ Use("get_model_info", Stage(get_model_info(predictor), <<>>))

NextUse == UsePredict \/ UseGetAllPredictions \/ UseValidateFeatures \/ UseGetModelInfo

SpecUse == InitUse /\ [][NextUse]_vars

(***************************************************************************)
(* Claims about validate_features (checked under SpecValidate).            *)
(***************************************************************************)
\* the value kinds that are numbers and neither NaN nor infinite
FiniteNumbers == {"float", "int", "bool"}

\* C1: for every feature mapping, validate_features returns valid = true
\* if and only if the key set is exactly the 11 canonical wire names and
\* every value is a number that is neither NaN nor infinite.
C1_ValidIffExactKeysAndFinite ==
    (pc = "done" /\ features.shape = "dict") =>
        /\ Returned(out)
        /\ out.value[1] <=>
              /\ Keys(features) = SeqToSet(wire_features)
              /\ \A k \in Keys(features) : features.val[k] \in FiniteNumbers

\* a mapping with the canonical keys and an int and a bool among the values
\* was validated and accepted
C1_Witness ==
    /\ pc = "done"
    /\ features.shape = "dict"
    /\ Keys(features) = SeqToSet(wire_features)
    /\ features.val["ph"] = "int"
    /\ features.val["alcohol"] = "bool"
    /\ out.value[1]

\* C2: validate_features never raises: every failure is returned as
\* (False, reason) with a non-empty reason, a valid input as (True, None).
C2_NeverRaises ==
    pc = "done" =>
        /\ Returned(out)
        /\ out.value[1] => out.value[2] = "None"
        /\ ~out.value[1] => out.value[2] \notin {"", "None"}

\* the internal error of checking a None input was returned as a reason
C2_Witness ==
    /\ pc = "done"
    /\ features.shape = "none"
    /\ Returned(out)
    /\ out.value = <<FALSE, "Validation error">>

(***************************************************************************)
(* Claims about predict (checked under SpecPredict).                       *)
(***************************************************************************)
PredictReturned == pc = "done" /\ Returned(out)

\* whether predict took the regression path
TookRegressionPath == is_regressor(FinalEstimator(predictor.best_model).value)

\* C3: every result returned by predict has a numeric quality estimate
\* between 3 and 9 inclusive, on the regression and the classification path.
C3_QualityWithin3And9 ==
    PredictReturned =>
        /\ out.value.prediction.t = "num"
        /\ out.value.prediction.n >= 3 * Den
        /\ out.value.prediction.n <= 9 * Den

\* C4: every result returned by predict has confidence in [0.5, 0.99] when
\* the model is a regressor and in [0, 1] otherwise, and probability_good in
\* [0, 1] on both paths.
C4_ConfidenceAndProbabilityBounds ==
    PredictReturned =>
        LET c == out.value.confidence
            g == out.value.probability_good
        IN  /\ c.den > 0 /\ g.den > 0
            /\ IF TookRegressionPath
               THEN 50 * c.den <= 100 * c.num /\ 100 * c.num <= 99 * c.den
               ELSE 0 <= c.num /\ c.num <= c.den
            /\ 0 <= g.num /\ g.num <= g.den

\* a regression result whose confidence was cut to 0.99
C4_Witness ==
    /\ PredictReturned
    /\ TookRegressionPath
    /\ 100 * out.value.confidence.num = 99 * out.value.confidence.den

\* C5: the quality_label of a result is the band of the result's own numeric
\* estimate p: "Excellent" if p >= 8, else "Above Average" if p >= 6.5,
\* else "Average" if p >= 5, else "Below Average".
C5_LabelIsBandOfEstimate ==
    (PredictReturned /\ out.value.prediction.t = "num") =>
        LET p2 == 2 * out.value.prediction.n
            label == out.value.quality_label
        IN  /\ p2 >= 16 * Den => label = "Excellent"
            /\ (p2 >= 13 * Den /\ p2 < 16 * Den) => label = "Above Average"
            /\ (p2 >= 10 * Den /\ p2 < 13 * Den) => label = "Average"
            /\ p2 < 10 * Den => label = "Below Average"

\* a result whose estimate is exactly 6.5 carries the higher band
C5_Witness ==
    /\ PredictReturned
    /\ out.value.prediction.t = "num"
    /\ 2 * out.value.prediction.n = 13 * Den
    /\ out.value.quality_label = "Above Average"

\* the case of C6: the scaler is a raw array and the estimator is loaded
ArrayScalerCase ==
    /\ pc = "done"
    /\ predictor.scaler = "ndarray"
    /\ predictor.best_model.kind # "None"

ResultKeys == {"prediction", "confidence", "probability_good", "quality_label", "model_used"}

\* no transform was called and every estimator call was given the unscaled
\* ordered row of the features
FedUnscaledRow ==
    \A i \in 1..Len(calls) :
        /\ calls[i].obj # "scaler"
        /\ ~calls[i].scaled
        /\ calls[i].row = feature_values(convert_feature_names(features))

EstimatorErrors ==
    { "'classifier'", "estimator call failed",
      "could not convert string to float",
      "cannot convert float NaN to integer",
      "cannot convert float infinity to integer",
      "unsupported operand type(s) for -: 'str' and 'int'",
      "index out of bounds" }

C8_MissingScalerFailsBeforeEstimator ==
    ( /\ pc = "done"
      /\ predictor.scaler = "None"
      /\ ~(is_pipeline(predictor.best_model) /\ has_preprocessor(predictor.best_model)) ) =>
        /\ Raised(out)
        /\ out.error = "ValueError"
        /\ out.msg = "Scaler not loaded and model has no internal preprocessing"
        /\ \A i \in 1..Len(calls) : calls[i].method \notin {"predict", "predict_proba"}

\* a bare classifier without a scaler was asked for a prediction
C8_Witness ==
    /\ pc = "done"
    /\ predictor.scaler = "None"
    /\ predictor.best_model = Classifier
    /\ Raised(out)

\* the scaler is a transformer whose transform returned
UsableScaler ==
    /\ predictor.scaler = "transformer"
    /\ \E i \in 1..Len(calls) : calls[i].method = "transform" /\ calls[i].ok

\* C9: with no estimator loaded but a usable scaler, predict reports the
\* error 'Best model not loaded', not an attribute error on None.
C9_MissingModelReported ==
    (pc = "done" /\ predictor.best_model.kind = "None" /\ UsableScaler) =>
        /\ Raised(out)
        /\ out.error = "ValueError"
        /\ out.msg = "Best model not loaded"

\* predict ran without an estimator after the scaler transformed the row
C9_Witness ==
    /\ pc = "done"
    /\ predictor.best_model.kind = "None"
    /\ UsableScaler
    /\ Raised(out)

\* predict took the classification path and returned; the estimator's
\* outputs are what its two calls returned
ClassifierReturned == PredictReturned /\ ~TookRegressionPath
ResultOf(method) == (CHOOSE c \in SeqToSet(calls) : c.method = method).result.value

\* the predicted class is an index into the decoder's n classes
DecodesToLabel ==
    /\ ClassifierReturned
    /\ predictor.label_encoder.kind # "None"
    /\ ResultOf("predict").t = "num"
    /\ ResultOf("predict").n % Den = 0
    /\ ResultOf("predict").n \div Den \in 0..(Len(predictor.label_encoder.classes) - 1)
\* the label L it decodes to
DecodedLabel == predictor.label_encoder.classes[(ResultOf("predict").n \div Den) + 1]

\* confidence is the maximum class probability
ConfidenceIsMaxProbability ==
    /\ out.value.confidence.den = PScale
    /\ \E i \in 1..Len(ResultOf("predict_proba")) :
          out.value.confidence.num = ResultOf("predict_proba")[i]
    /\ \A i \in 1..Len(ResultOf("predict_proba")) :
          ResultOf("predict_proba")[i] <= out.value.confidence.num

SimpleDecoderCannotResolve ==
    /\ ClassifierReturned
    /\ predictor.label_encoder.kind = "simple"
    /\ ~(/\ ResultOf("predict").t = "num"
         /\ ResultOf("predict").n % Den = 0
         /\ ResultOf("predict").n \div Den \in 0..(Len(predictor.label_encoder.classes) - 1))
    /\ \A i \in 1..Len(predictor.label_encoder.classes) :
          predictor.label_encoder.classes[i] # ResultOf("predict")

\* C17 as claimed: for a label decoder wrapped from a raw array of n class
\* names, decoding an encoded value v never raises, and whenever v is not an
\* integer index in 0..n-1 and equals none of the class names, the decoder
\* returns v unchanged, so that predict works on v itself.
C17_UnresolvedValueReturnedUnchanged ==
    SimpleDecoderCannotResolve =>
        /\ SimpleInverseTransform(predictor.label_encoder.classes, ResultOf("predict"))
               = ResultOf("predict")
        /\ out.value.prediction = NumericPrediction(ResultOf("predict"))

\* the decoder lets the good classes be identified: it exists and has a
\* class list
GoodClassesIdentified ==
    predictor.label_encoder.kind # "None" /\ HasClasses(predictor.label_encoder)

\* C29 as claimed: on the classification path probability_good is the sum
\* of the probabilities of the classes identified as good (numeric class
\* >= 6, or label "Good"/"Excellent"); whenever the good classes cannot be
\* identified (no label decoder, or a decoder without a class list) it is
\* the last entry of the probability vector.
C29_ProbabilityGoodSumOrLastEntry ==
    ClassifierReturned =>
        LET probabilities == ResultOf("predict_proba")
            classes == predictor.label_encoder.classes
        IN  IF GoodClassesIdentified
            THEN out.value.probability_good =
                   Frac(SumOver(probabilities,
                                { i \in 0..(Len(classes) - 1) : IsGoodLabel(classes[i + 1]) }),
                        PScale)
            ELSE out.value.probability_good =
                   Frac(probabilities[Len(probabilities)], PScale)

\* the estimator exposes a named-step structure with a step whose name
\* contains "preprocessor" or "scaler"
OwnPreprocessing ==
    /\ predictor.best_model.kind # "None"
    /\ is_pipeline(predictor.best_model)
    /\ has_preprocessor(predictor.best_model)
ScalerConsulted == \E i \in 1..Len(calls) : calls[i].obj = "scaler"

\* C27 as claimed: when the estimator exposes a named-step structure and
\* some step name contains "preprocessor" or "scaler", the external scaler
\* is never consulted and predict gets the raw ordered row to the estimator,
\* even when the scaler is absent or a raw array; in every other case the
\* external-scaler branch is taken (absent: error; raw array: skipped;
\* otherwise transform is called first).
C27_OwnPreprocessingFeedsRawRow ==
    (pc = "done" /\ features.shape = "dict") =>
        IF OwnPreprocessing
        THEN /\ ~ScalerConsulted
             /\ calls # <<>>
             /\ \A i \in 1..Len(calls) :
                   /\ calls[i].method \in {"predict", "predict_proba"}
                   /\ ~calls[i].scaled
                   /\ calls[i].row = feature_values(convert_feature_names(features))
        ELSE /\ predictor.scaler = "None" => Raised(out) /\ calls = <<>>
             /\ predictor.scaler = "ndarray" => ~ScalerConsulted
             /\ predictor.scaler = "transformer" =>
                   calls # <<>> /\ calls[1].obj = "scaler" /\ calls[1].method = "transform"

\* predict took the regression path and returned, on a raw prediction
\* within the range [3, 9]
RegressedInRange ==
    /\ PredictReturned /\ TookRegressionPath
    /\ ResultOf("predict").t = "num"
    /\ ResultOf("predict").n \in (3 * Den)..(9 * Den)

\* C25 as claimed: on the regression path a raw prediction nearer the
\* centre of the [3, 9] range is never reported with lower confidence than
\* a raw prediction nearer an edge: for raw values a, b in [3, 9] with
\* |a - 6| < |b - 6|, confidence(a) >= confidence(b).
C25_CentreAtLeastAsConfidentAsEdge ==
    RegressedInRange =>
        \A b \in (3 * Den)..(9 * Den) :
            Abs(ResultOf("predict").n - 6 * Den) < Abs(b - 6 * Den) =>
                out.value.confidence.num * RegressionConfidence(Num(b)).den
                    >= RegressionConfidence(Num(b)).num * out.value.confidence.den

(***************************************************************************)
(* Claims about get_all_predictions (checked under SpecBatch).             *)
(***************************************************************************)
\* the inference of registry entry i failed: the model or one of the two
\* methods is missing, or a call on it raised
InferenceFailed(i) ==
    LET entry == predictor.all_models[i] IN
    \/ entry.model.kind = "None"
    \/ ~entry.model.final_proba
    \/ \E j \in 1..Len(calls) : calls[j].obj = entry.name /\ ~calls[j].ok

\* the list holds one result per registered model, in registry order, the
\* sentinel for every model whose inference failed
OneResultPerModel ==
    /\ Returned(out)
    /\ Len(out.value) = Len(predictor.all_models)
    /\ \A i \in 1..Len(predictor.all_models) :
          /\ out.value[i].model_name = predictor.all_models[i].name
          /\ InferenceFailed(i) => out.value[i] = Sentinel(predictor.all_models[i].name)

BatchPreprocessed ==
    /\ predictor.scaler # "None"
    /\ \A j \in 1..Len(calls) : calls[j].obj = "scaler" => calls[j].ok

MalformedArtifact ==
    \/ predictor.scaler = "ndarray"
    \/ predictor.label_encoder.kind = "simple"

\* the response is an error that blames the artifact
ArtifactError ==
    /\ out.status >= 400
    /\ out.detail \in
         { "Server error: transformer is loaded as a numpy.ndarray",
           "Server error: transformer is loaded as a numpy.ndarray for comparison endpoint" }

\* C7: a recognized-malformed artifact (scaler or label decoder saved as a
\* raw array) never causes a prediction or comparison request to end in an
\* error.
C7_MalformedArtifactNeverFailsRequest ==
    (pc \in {"predict", "compare"} /\ MalformedArtifact) => ~ArtifactError

(***************************************************************************)
(* Claims about the consensus of a comparison (checked under SpecCompare). *)
(***************************************************************************)
Compared == pc = "compare" /\ out.status = 200

\* the positions of the results whose label is not "Unknown", and of those
\* carrying label l
KnownPositions == { i \in 1..Len(out.body.all_models_results) :
                      out.body.all_models_results[i].prediction # Str("Unknown") }
PositionsOf(l) == { i \in KnownPositions : out.body.all_models_results[i].prediction = l }
KnownLabels == { out.body.all_models_results[i].prediction : i \in KnownPositions }
FirstPosition(l) == CHOOSE i \in PositionsOf(l) : \A j \in PositionsOf(l) : i <= j
\* the labels with the highest count
TopLabels == { l \in KnownLabels :
                 \A m \in KnownLabels : Cardinality(PositionsOf(m)) <= Cardinality(PositionsOf(l)) }

\* C11: consensus is the most frequent label among the results that are not
\* "Unknown", the first-seen one among equally frequent labels;
\* agreement_count is the number of results carrying it; total_models is
\* the number of results; when every result is "Unknown" consensus is
\* "Unknown" and agreement_count is 0; so 0 <= agreement_count <= total_models.
C11_ConsensusIsFirstMostFrequent ==
    Compared =>
        /\ out.body.total_models = Len(out.body.all_models_results)
        /\ 0 <= out.body.agreement_count
        /\ out.body.agreement_count <= out.body.total_models
        /\ IF KnownPositions = {}
           THEN out.body.consensus = Str("Unknown") /\ out.body.agreement_count = 0
           ELSE /\ out.body.consensus \in TopLabels
                /\ \A l \in TopLabels : FirstPosition(out.body.consensus) <= FirstPosition(l)
                /\ out.body.agreement_count = Cardinality(PositionsOf(out.body.consensus))

\* three results "Bad", "Good", "Good": the majority label won although
\* it was not seen first
C11_Witness ==
    /\ Compared
    /\ out.body.total_models = 3
    /\ Cardinality(KnownPositions) = 3
    /\ out.body.all_models_results[1].prediction = Str("Bad")
    /\ out.body.consensus = Str("Good")
    /\ out.body.agreement_count = 2

\* two or more distinct labels share the highest count
TiedForHighest == Compared /\ Cardinality(TopLabels) >= 2

Chosen(artifact) == IF artifact.joblib.state # "absent" THEN artifact.joblib ELSE artifact.pkl
Loads(artifact) == Chosen(artifact).state = "ok"
Corrupt(artifact) == Chosen(artifact).state \in {"truncated", "malformed"}
Missing(artifact) == artifact.joblib.state = "absent" /\ artifact.pkl.state = "absent"
RegistryPopulated ==
    /\ Len(predictor.all_models) = 1
    /\ predictor.all_models[1].name = "Best Model"
    /\ predictor.all_models[1].model = predictor.best_model
    /\ predictor.best_model.kind # "None"

\* C14: loading looks for the estimator file under the .joblib name first
\* and the .pkl name second; if neither exists, construction fails with a
\* file-not-found error and no predictor instance and no registry entry
\* becomes available.
C14_EstimatorLookupAndMissing ==
    pc = "done" =>
        /\ models_dir.best_model.joblib.state # "absent" =>
              /\ calls # <<>>
              /\ calls[1].obj = "joblib" /\ calls[1].path = <<"best_model", "joblib">>
        /\ (models_dir.best_model.joblib.state = "absent"
              /\ models_dir.best_model.pkl.state # "absent") =>
              /\ calls # <<>>
              /\ calls[1].obj = "pickle" /\ calls[1].path = <<"best_model", "pkl">>
        /\ Missing(models_dir.best_model) =>
              /\ Raised(out) /\ out.error = "FileNotFoundError"
              /\ out.msg = "Best model file not found"
              /\ calls = <<>>
              /\ predictor = NoPredictor
              /\ predictor.all_models = <<>>

\* the other artifacts are in place but no estimator file exists: the
\* construction failed before loading anything
C14_Witness ==
    /\ pc = "done"
    /\ Missing(models_dir.best_model)
    /\ Loads(models_dir.scaler)
    /\ Loads(models_dir.label_encoder)
    /\ Raised(out)
    /\ out.error = "FileNotFoundError"

\* C15: if the scaler file is present but corrupt (truncated or malformed),
\* in either serialization format, loading does not fail: the scaler is
\* recorded as absent and the load continues to the label decoder, the
\* metadata sidecar and the model registry.
C15_CorruptScalerTreatedAsAbsent ==
    ( /\ pc = "done"
      /\ Loads(models_dir.best_model)
      /\ Corrupt(models_dir.scaler)
      /\ ~Corrupt(models_dir.label_encoder)
      /\ models_dir.model_comparison # "malformed" ) =>
        /\ Returned(out)
        /\ predictor.scaler = "None"
        /\ RegistryPopulated

Explained == { c \in SeqToSet(calls) : c.method = "get_wine_explanation" }
ExplanationAsked == pc = "predict" /\ Explained # {}
ExplanationResult == (CHOOSE c \in Explained : TRUE).result

\* C20: a failure of explanation generation never fails the prediction
\* request: whenever validation and predict succeed, the /predict endpoint
\* responds successfully with the prediction, whether the explanation call
\* returns text, returns the canned fallback, or raises (then the response
\* carries no explanation).
C20_ExplanationFailureNeverFailsRequest ==
    ExplanationAsked =>
        /\ out.status = 200
        /\ out.body.prediction = (CHOOSE c \in Explained : TRUE).prediction
        /\ out.body.confidence = (CHOOSE c \in Explained : TRUE).confidence
        /\ out.body.gemini_insight =
               IF Returned(ExplanationResult) THEN ExplanationResult.value ELSE "None"

\* the explanation call raised and the request was answered with the prediction
C20_Witness ==
    /\ ExplanationAsked
    /\ Raised(ExplanationResult)
    /\ out.status = 200
    /\ out.body.gemini_insight = "None"

\* the handler's validate_features call, and the calls made on the scaler
\* and the estimators (predict / get_all_predictions at work)
Validated == { i \in 1..Len(calls) : calls[i].method = "validate_features" }
Inferred == { i \in 1..Len(calls) :
                calls[i].method \in {"transform", "predict", "predict_proba"} }
ReportedInvalid == \E i \in Validated : calls[i].ok /\ ~calls[i].result.value[1]

\* C21: in both endpoints validation precedes inference: every call of
\* inference comes after the validate_features call, and when
\* validate_features reports the features invalid the request is rejected
\* with status 400 carrying the reason and predict / get_all_predictions is
\* never invoked.
C21_ValidationPrecedesInference ==
    pc \in {"predict", "compare"} =>
        /\ Validated = {1}
        /\ \A i \in Inferred : i > 1
        /\ ReportedInvalid =>
              /\ out.status = 400
              /\ out.detail = calls[1].result.value[2]
              /\ Inferred = {}
              /\ Len(calls) = 1

\* a predict request whose features were reported invalid was answered 400
C21_WitnessPredict ==
    /\ pc = "predict"
    /\ ReportedInvalid
    /\ out.status = 400
    /\ out.detail = "Invalid features"

\* the error class the predictor raised while /predict was handling a request
PredictorRaised(error) ==
    /\ pc = "predict"
    /\ \E i \in 1..Len(calls) :
          /\ calls[i].obj = "ml_predictor"
          /\ ~calls[i].ok
          /\ calls[i].result.error = error

\* C23 as claimed: when the predictor raises ModelNotLoadedError while the
\* /predict endpoint is handling a request, the endpoint responds with
\* status 503 and error_code MODEL_NOT_LOADED, and with 422 and
\* VALIDATION_ERROR when it raises ValidationError, rather than a generic
\* 500.
C23_TypedErrorsGetTheirOwnStatus ==
    /\ PredictorRaised("ModelNotLoadedError") =>
          out.status = 503 /\ out.error_code = "MODEL_NOT_LOADED"
    /\ PredictorRaised("ValidationError") =>
          out.status = 422 /\ out.error_code = "VALIDATION_ERROR"

(***************************************************************************)
(* Claims about the process-wide predictor (checked under SpecSingleton).  *)
(***************************************************************************)
\* the accessor calls that constructed a predictor, i.e. loaded the artifacts
Loaded == { i \in 1..Len(calls) : calls[i].loaded }
\* the get_ml_predictor calls that returned an instance
Obtained == { i \in 1..Len(calls) : calls[i].method = "get_ml_predictor" /\ calls[i].ok }

\* C18 as claimed: across any interleaving of get_ml_predictor and
\* initialize_ml_predictor calls (requests and startup), the artifacts are
\* loaded at most once per process and every caller of get_ml_predictor
\* obtains the same predictor instance.
C18_LoadedOnceAndOneInstance ==
    /\ Cardinality({ i \in Loaded : calls[i].ok }) <= 1
    /\ \A i, j \in Obtained : calls[i].id = calls[j].id

\* C19 as claimed: once a load has failed because the estimator or scaler
\* file is missing, no later call attempts the load again.
C19_NoRetryAfterMissingArtifact ==
    \A i \in Loaded :
        (~calls[i].ok /\ calls[i].error = "FileNotFoundError") =>
            \A j \in Loaded : j <= i

(***************************************************************************)
(* Claims about the sulfur dioxide checks (checked under SpecSO2).         *)
(***************************************************************************)
FreeSo2 == GetOrZero(features, "free_sulfur_dioxide")
TotalSo2 == GetOrZero(features, "total_sulfur_dioxide")
\* both fields are there and within the limits of WineFeatures
So2FieldsAdmitted ==
    /\ DOMAIN features = {"free_sulfur_dioxide", "total_sulfur_dioxide"}
    /\ FreeSo2 \in 0..FreeSo2Limit
    /\ TotalSo2 \in 0..TotalSo2Limit
\* the request was rejected by the validator of total_sulfur_dioxide
So2ValidatorRejected ==
    /\ Raised(out)
    /\ out.msg[2] = "Total sulfur dioxide must be >= free sulfur dioxide"

\* C22 as claimed: each sulfur dioxide check rejects a feature set exactly
\* when total is strictly less than free, with a message naming both values;
\* equal values pass.
C22_AsClaimed ==
    /\ pc = "check_so2_relationship" =>
          /\ Raised(out) <=> TotalSo2 < FreeSo2
          /\ Raised(out) => out.value = <<TotalSo2, FreeSo2>>
    /\ (pc = "WineFeatures" /\ So2FieldsAdmitted) =>
          /\ Raised(out) <=> TotalSo2 < FreeSo2
          /\ Raised(out) => out.value = <<TotalSo2, FreeSo2>>

\* C22 as amended: each sulfur dioxide check rejects a feature set exactly
\* when total is strictly less than free (a missing key counting as 0 in
\* check_so2_relationship; both fields within their limits in WineFeatures),
\* and equal values pass; the message of check_so2_relationship names both
\* values, the message of the WineFeatures validator is fixed and names
\* neither.
C22_So2RejectedIffTotalBelowFree ==
    /\ pc = "check_so2_relationship" =>
          /\ Raised(out) <=> TotalSo2 < FreeSo2
          /\ Raised(out) =>
                /\ out.error = "ValidationError"
                /\ out.value = <<TotalSo2, FreeSo2>>
    /\ (pc = "WineFeatures" /\ So2FieldsAdmitted) =>
          /\ Raised(out) <=> TotalSo2 < FreeSo2
          /\ Raised(out) => So2ValidatorRejected /\ out.value = <<>>

\* check_so2_relationship rejected free 5, total 3 naming both
C22_Witness ==
    /\ pc = "check_so2_relationship"
    /\ DOMAIN features = {"free_sulfur_dioxide", "total_sulfur_dioxide"}
    /\ FreeSo2 = 5 /\ TotalSo2 = 3
    /\ Raised(out)
    /\ out.value = <<3, 5>>

(***************************************************************************)
(* Claims about _generate_with_retry (checked under SpecRetryFair).        *)
(***************************************************************************)
Attempts == { i \in 1..Len(calls) : calls[i].method = "generate_content" }
Sleeps == { i \in 1..Len(calls) : calls[i].method = "sleep" }

\* attempts and waits so far: at most max_retries attempts, no attempt after
\* a successful one, the k-th failed attempt (k = 0, 1, ...) followed by a
\* wait of 2^k seconds exactly when another attempt follows it
RetryDiscipline ==
    /\ Cardinality(Attempts) <= gemini.max_retries
    /\ \A i \in 1..Len(calls) :
          /\ i % 2 = 1 => calls[i].method = "generate_content" /\ 2 * calls[i].attempt = i - 1
          /\ i % 2 = 0 => /\ calls[i].method = "sleep"
                          /\ calls[i].seconds = Pow2(calls[i - 1].attempt)
                          /\ ~calls[i - 1].ok
          /\ (calls[i].method = "generate_content" /\ calls[i].ok) => i = Len(calls)
    /\ pc = "done" => (calls = <<>> \/ calls[Len(calls)].method = "generate_content")

\* how the method ended: with the first successful response, or with the
\* last failure after max_retries failed attempts
RetryOutcome ==
    pc = "done" =>
        IF \E i \in Attempts : calls[i].ok
        THEN out = calls[Len(calls)].result
        ELSE IF gemini.max_retries > 0
             THEN /\ Cardinality(Attempts) = gemini.max_retries
                  /\ Raised(out)
                  /\ out = calls[Len(calls)].result
             ELSE out = Return("None")

\* C24: _generate_with_retry always terminates after at most max_retries
\* generation attempts: it returns the first successful response without
\* further attempts, waits 2^k seconds after the k-th failed attempt only
\* when another attempt follows, and after the last failed attempt re-raises
\* that failure without waiting.
C24_BoundedRetryWithBackoff ==
    /\ [](RetryDiscipline /\ RetryOutcome)
    /\ <>(pc = "done")

\* with the default max_retries all three attempts failed: waits of 1 and 2
\* seconds, and the last failure re-raised with no wait after it
C24_Witness ==
    /\ pc = "done"
    /\ gemini.max_retries = DefaultMaxRetries
    /\ Len(calls) = 5
    /\ calls[2].seconds = 1 /\ calls[4].seconds = 2
    /\ calls[1].result.error = "ResourceExhausted"
    /\ calls[5].result.error = "ServiceUnavailable"
    /\ Raised(out) /\ out.error = "ServiceUnavailable"

(***************************************************************************)
(* Claims about schema translation (checked under SpecConvert).            *)
(***************************************************************************)
\* the positions, in the mapping's iteration order, of the keys that stand
\* for canonical column j: its wire name, or the model name itself
KeysFor(j) == { i \in 1..Len(features.order) :
                  features.order[i] \in {wire_features[j], expected_features[j]} }
\* the value column j must hold: that of the last such key, else 0.0
ColumnValue(j) ==
    IF KeysFor(j) = {} THEN "0.0"
    ELSE features.val[features.order[CHOOSE i \in KeysFor(j) : \A k \in KeysFor(j) : k <= i]]
MissingWireKeys == SeqToSet(wire_features) \ SeqToSet(features.order)

\* C26: predict renames wire keys to model keys by the fixed mapping, passes
\* unmapped keys through unchanged, and builds the 11-column row in
\* canonical training order; a canonical feature absent from the input is
\* filled with 0.0 and the request is not rejected, unlike
\* validate_features, which rejects the same input for missing keys.
C26_RowInCanonicalOrderWithZeroDefault ==
    /\ pc = "predict" =>
          /\ Returned(out)
          /\ calls # <<>>
          /\ \A i \in 1..Len(calls) :
                /\ Len(calls[i].row) = Len(expected_features)
                /\ \A j \in 1..Len(expected_features) : calls[i].row[j] = ColumnValue(j)
    /\ (pc = "validate_features" /\ MissingWireKeys # {}) =>
          /\ Returned(out)
          /\ ~out.value[1]

\* predict ran on a mapping iterated in reverse, without "fixed_acidity",
\* with "ph" an int and "alcohol" a float: column 1 is 0.0, column 9 the int
C26_Witness ==
    /\ pc = "predict"
    /\ Returned(out)
    /\ features.order[1] = "alcohol"
    /\ "fixed_acidity" \notin SeqToSet(features.order)
    /\ "pH" \notin SeqToSet(features.order)
    /\ "ph" \in SeqToSet(features.order)
    /\ features.val["ph"] = "int" /\ features.val["alcohol"] = "float"
    /\ calls[1].row[1] = "0.0" /\ calls[1].row[9] = "int" /\ calls[1].row[11] = "float"

(***************************************************************************)
(* Claims about a loaded predictor in use (checked under SpecUse).         *)
(***************************************************************************)
\* the fractions a and b are the same number
SameFrac(a, b) == a.num * b.den = b.num * a.den

\* the logged get_all_predictions call j has a real result for "Best Model"
\* with the confidence and probability_good of the logged predict call i
BatchMatchesPredict(i, j) ==
    /\ Returned(out[j].o)
    /\ \E k \in 1..Len(out[j].o.value) :
          /\ out[j].o.value[k].model_name = "Best Model"
          /\ out[j].o.value[k] # Sentinel("Best Model")
          /\ SameFrac(out[j].o.value[k].confidence, out[i].o.value.confidence)
          /\ SameFrac(out[j].o.value[k].probability_good, out[i].o.value.probability_good)

\* C28 as claimed: get_all_predictions runs, for each registered model, the
\* same steps as predict: for the registered "Best Model" and the same
\* features it yields a non-sentinel result whenever predict succeeds, with
\* the same confidence and probability_good as predict.
C28_BatchRepeatsPredictForBestModel ==
    pc = "ready" =>
        \A i, j \in 1..Len(out) :
            ( /\ out[i].method = "predict"
              /\ Returned(out[i].o)
              /\ out[j].method = "get_all_predictions" ) => BatchMatchesPredict(i, j)

\* the registry is the single entry "Best Model" -> the loaded estimator
RegistryIsBestModel ==
    /\ Len(predictor.all_models) = 1
    /\ predictor.all_models[1].name = "Best Model"
    /\ predictor.all_models[1].model = predictor.best_model
    /\ predictor.best_model.kind # "None"

====
